---- MODULE Spec2Model ----
(***************************************************************************)
(* Corsie: the conversation generation subsystem.                          *)
(*                                                                         *)
(* The GUI thread runs one handler at a time (ChatWidget, SessionPanel,    *)
(* MainWindow slots).  Every AIResponseThread and TitleGenerationThread is *)
(* a worker whose signals reach the GUI thread through Qt's queued         *)
(* connections: they are appended to `queue` and handled later, in post    *)
(* order, by the GUI thread.  QTimer.singleShot timers live in `timers`.   *)
(*                                                                         *)
(* Text is a sequence of tokens: string concatenation is \o, str.strip()   *)
(* is Strip, "/".join / split("/") work on the sequence of segments.       *)
(***************************************************************************)
EXTENDS Naturals, Integers, Sequences, FiniteSets, TLC

\* ---------------------------------------------------------------- bounds
MaxSessions == 2     \* session ids the store may hand out (uuid4 values)
MaxSubmits  == 2     \* user messages the user submits in one run
MaxGestures == 2     \* other user gestures in one run: select, new, delete, rename, stop, settings
LiveSubmits == 1     \* the same two bounds for the runs checked under fairness
LiveGestures == 2
MaxSegments == 3     \* "/"-separated segments of a stored model string
MaxStored == 21      \* messages a session holds when the program starts
MaxAppends == 3      \* add_message calls in one run of the store
MaxClock == 2        \* distinct readings of the wall clock in that run
MaxDeltas == 3       \* deltas in one response of the stub backend
MaxTitleLen == 3     \* tokens in one title completion

\* ------------------------------------------------------ program constants
DefaultTitle == <<"xin-duihua">>     \* the placeholder title (the code's Chinese "new conversation")
WelcomeTitle == <<"Welcome-Corsie">> \* title of the first-run session
DefaultModel == <<"deepseek", "deepseek-chat">>  \* "deepseek/deepseek-chat"
MessagesLimit == 100                          \* get_session_messages limit
ContextLimit == 20                            \* get_conversation_context max_messages
TitleLimit == 10                              \* auto_generate_session_title limit
ErrorPrefix == "cuowu:"              \* the error marker a fragment may start with (the code's Chinese "error:")

NoId == 0            \* Python None for a session id
None == [exists |-> FALSE]

\* ------------------------------------------------------------ environment
\* the fragments the stub provider yields, in generation order
Script == << <<"Hi">>, <<" there">> >>
\* the error fragment a provider client yields when its request fails
ErrorFragment == <<ErrorPrefix, " boom">>
\* what the user types into the input box
Inputs == {<<"Hello">>, <<" ">>}
\* what the user types into the rename dialog
RenameInputs == {<<"Custom">>}
\* the providers the registry can build a client for
Providers == {"deepseek", "openrouter"}
\* the providers the user has an api key for
KeyProviders == {"deepseek"}
\* the api keys the user may type into the settings dialog: key n + 1 is the
\* one that differs from key n and from every key stored before
ApiKeys == {1, 2, 3}
\* the entries of the model menu the user picks from
MenuModels == {<<"deepseek", "deepseek-chat">>, <<"deepseek", "deepseek-reasoner">>}
\* completions the title client may return: content, or an error
TitleResponses == {[error |-> FALSE, content |-> <<"\"", "Greeting", "\"">>],
                   [error |-> FALSE, content |-> <<" ">>],
                   [error |-> FALSE, content |-> <<>>],
                   [error |-> TRUE, content |-> <<>>]}

VARIABLES
    db_sessions,        \* sessions table: id -> [title, ai_model, system_prompt]
    db_recent,          \* session ids ordered by updated_at DESC
    db_messages,        \* messages table in rowid order: [session_id, role, content, timestamp]
    next_session_id,    \* next fresh session id
    session_cache,      \* SessionManager._session_cache
    sm_current,         \* SessionManager.current_session_id
    api_keys,           \* ConfigManager api_keys: provider -> stored key (0: none)
    clients,            \* AIClientManager._clients: <<provider, model>> -> client
    constructed,        \* number of client objects constructed so far
    cw_current,         \* ChatWidget.current_session_id
    is_generating,      \* ChatWidget.is_generating
    input_enabled,      \* send button / text input / clear button enabled
    stop_enabled,       \* stop button enabled
    streaming_response, \* ChatWidget.streaming_response
    current_ai_bubble,  \* ChatWidget.current_ai_bubble
    ai_threads,         \* every AIResponseThread started so far; the last one is self.ai_thread
    queue,              \* queued signals waiting for the GUI thread
    timers,             \* pending QTimer.singleShot(2000, _start_delayed_renaming)
    title_threads,      \* every TitleGenerationThread started so far
    gui_pc,             \* position of the GUI thread inside on_ai_response_finished
    submits_left,       \* user messages the user may still submit
    gestures_left,      \* other gestures the user may still make
    last                \* the handler that ran last, its outcome and the signals it emitted

db_vars == <<db_sessions, db_recent, db_messages, next_session_id>>
sm_vars == <<session_cache, sm_current>>
reg_vars == <<api_keys, clients, constructed>>
budget_vars == <<submits_left, gestures_left>>
cw_vars == <<cw_current, is_generating, input_enabled, stop_enabled,
             streaming_response, current_ai_bubble>>
vars == <<db_sessions, db_recent, db_messages, next_session_id, session_cache,
          sm_current, api_keys, clients, constructed, cw_current, is_generating,
          input_enabled, stop_enabled, streaming_response, current_ai_bubble,
          ai_threads, queue, timers, title_threads, gui_pc, submits_left,
          gestures_left, last>>

\* ------------------------------------------------------------ text helpers
IsSpace(tok) == tok = " "

RECURSIVE LStrip(_)
LStrip(s) == IF s # <<>> /\ IsSpace(Head(s)) THEN LStrip(Tail(s)) ELSE s

RECURSIVE RStrip(_)
RStrip(s) == IF s # <<>> /\ IsSpace(s[Len(s)]) THEN RStrip(SubSeq(s, 1, Len(s) - 1)) ELSE s

Strip(s) == RStrip(LStrip(s))

\* f1 + ... + fn
RECURSIVE Concat(_)
Concat(fragments) ==
    IF fragments = <<>> THEN <<>> ELSE Head(fragments) \o Concat(Tail(fragments))

\* StartsWithError taking no fragment for an error
StartsWithError_Never(chunk) == FALSE

\* chunk.startswith(the error marker)
StartsWithError(chunk) == chunk # <<>> /\ Head(chunk) = ErrorPrefix

Lower(s) == CASE s = "OpenRouter" -> "openrouter"
              [] s = "DeepSeek" -> "deepseek"
              [] OTHER -> s

\* the quoting characters and title labels auto_generate_session_title removes
TitleNoise == {"\"", "'", "biaoti-fullwidth-colon", "biaoti:"}

\* CleanTitle without the removal of quotes and labels
CleanTitle_StripOnly(raw) == Strip(raw)

\* raw_title.strip().replace('"', '').replace("'", "").replace(label, "").strip()
CleanTitle(raw) == Strip(SelectSeq(Strip(raw), LAMBDA tok : tok \notin TitleNoise))

Range(s) == {s[i] : i \in 1..Len(s)}

Remove(s, x) == SelectSeq(s, LAMBDA y : y # x)

\* -------------------------------------------------------------- database
\* DatabaseManager.create_session
DbCreateSession(id, title) ==
    [x \in DOMAIN db_sessions \cup {id} |->
        IF x = id THEN [title |-> title, ai_model |-> DefaultModel, system_prompt |-> <<>>]
        ELSE db_sessions[x]]

\* UPDATE sessions SET updated_at = now WHERE id = sid
Touch(recent, sid) == IF sid \in Range(recent) THEN <<sid>> \o Remove(recent, sid) ELSE recent

\* DatabaseManager.add_message when datetime.now() reads now: the INSERT;
\* sqlite3 connections do not enable foreign keys, so the row is inserted
\* whether or not the session exists
DbAddMessageAt(msgs, sid, role, content, now) ==
    Append(msgs, [session_id |-> sid, role |-> role, content |-> content, timestamp |-> now])

\* datetime.now() of a clock that advances between two appends
Clock(msgs) == IF msgs = <<>> THEN 1 ELSE msgs[Len(msgs)].timestamp + 1

\* DbAddMessage writing an assistant text into the session's latest assistant
\* row when there is one, instead of inserting a row
DbAddMessage_InPlace(msgs, sid, role, content) ==
    LET own == {i \in 1..Len(msgs) : msgs[i].session_id = sid /\ msgs[i].role = "assistant"}
    IN  IF role = "assistant" /\ own # {}
        THEN LET latest == CHOOSE i \in own : \A j \in own : j <= i
             IN  [msgs EXCEPT ![latest].content = content]
        ELSE DbAddMessageAt(msgs, sid, role, content, Clock(msgs))

\* DatabaseManager.add_message under that clock
DbAddMessage(msgs, sid, role, content) == DbAddMessageAt(msgs, sid, role, content, Clock(msgs))

\* ORDER BY timestamp ASC: rows with equal timestamps stay in rowid order
RECURSIVE OrderByTimestamp(_)
OrderByTimestamp(rows) ==
    IF rows = <<>> THEN <<>>
    ELSE LET sorted == OrderByTimestamp(SubSeq(rows, 1, Len(rows) - 1))
             row == rows[Len(rows)]
             before == SelectSeq(sorted, LAMBDA m : m.timestamp <= row.timestamp)
             after == SelectSeq(sorted, LAMBDA m : m.timestamp > row.timestamp)
         IN  before \o <<row>> \o after

\* DatabaseManager.get_messages
DbGetMessages(msgs, sid, limit) ==
    LET own == OrderByTimestamp(SelectSeq(msgs, LAMBDA m : m.session_id = sid))
    IN  SubSeq(own, 1, IF Len(own) < limit THEN Len(own) ELSE limit)

\* -------------------------------------------------------- session manager
\* SessionManager.get_session: the value returned
HasSession(cache, sessions, sid) == sid \in DOMAIN cache \/ sid \in DOMAIN sessions

GetSession(cache, sessions, sid) == IF sid \in DOMAIN cache THEN cache[sid] ELSE sessions[sid]

\* SessionManager.get_session: the cache it leaves
CacheAfterGet(cache, sessions, sid) ==
    IF sid \in DOMAIN cache \/ sid \notin DOMAIN sessions THEN cache
    ELSE [x \in DOMAIN cache \cup {sid} |-> IF x = sid THEN sessions[sid] ELSE cache[x]]

\* SessionManager.get_session_messages
GetSessionMessages(msgs, sid, cur, limit) ==
    LET s == IF sid = NoId THEN cur ELSE sid
    IN  IF s = NoId THEN <<>> ELSE DbGetMessages(msgs, s, limit)

\* SessionManager.get_conversation_context
GetConversationContext(cache, sessions, msgs, sid) ==
    IF sid = NoId \/ ~HasSession(cache, sessions, sid) THEN <<>>
    ELSE LET session == GetSession(cache, sessions, sid)
             head == IF session.system_prompt # <<>>
                     THEN <<[role |-> "system", content |-> session.system_prompt]>>
                     ELSE <<>>
             own == SelectSeq(DbGetMessages(msgs, sid, ContextLimit),
                              LAMBDA m : m.role \in {"user", "assistant"})
         IN  head \o [i \in 1..Len(own) |-> [role |-> own[i].role, content |-> own[i].content]]

\* ---------------------------------------------------------- model parsing
\* ParseModel taking the second segment whatever the provider
ParseModel_SecondOnly(model_parts) ==
    IF Len(model_parts) >= 2
    THEN [provider |-> model_parts[1], model |-> <<model_parts[2]>>]
    ELSE [provider |-> "deepseek", model |-> <<"deepseek-chat">>]

\* ChatWidget.start_ai_response: session.ai_model.split("/") and what follows
ParseModel(model_parts) ==
    IF Len(model_parts) >= 2
    THEN IF Lower(model_parts[1]) = "openrouter" /\ Len(model_parts) > 2
         THEN [provider |-> model_parts[1], model |-> SubSeq(model_parts, 2, Len(model_parts))]
         ELSE [provider |-> model_parts[1], model |-> <<model_parts[2]>>]
    ELSE [provider |-> "deepseek", model |-> <<"deepseek-chat">>]

\* ChatWidget._start_delayed_renaming: its own copy of the same lines
ParseTitleModel(model_parts) ==
    IF Len(model_parts) >= 2
    THEN IF Lower(model_parts[1]) = "openrouter" /\ Len(model_parts) > 2
         THEN [provider |-> model_parts[1], model |-> SubSeq(model_parts, 2, Len(model_parts))]
         ELSE [provider |-> model_parts[1], model |-> <<model_parts[2]>>]
    ELSE [provider |-> "deepseek", model |-> <<"deepseek-chat">>]

\* -------------------------------------------------------- client registry
\* ConfigManager.get_api_key: 0 for None
GetApiKey(keys, provider) == IF provider \in DOMAIN keys THEN keys[provider] ELSE 0

\* AIClientManager.get_client: whether a client is returned
ClientResolves(cl, keys, provider, model) ==
    \/ <<provider, model>> \in DOMAIN cl
    \/ /\ GetApiKey(keys, Lower(provider)) # 0
       /\ Lower(provider) \in Providers

\* GetClient without the cache lookup: every call constructs
GetClient_AlwaysConstructs(cl, keys, n, provider, model) ==
    [id |-> n + 1, api_key |-> GetApiKey(keys, Lower(provider))]

\* AIClientManager.get_client: the client returned when one is; a client is
\* its identity and the api key it was constructed with
GetClient(cl, keys, n, provider, model) ==
    IF <<provider, model>> \in DOMAIN cl THEN cl[<<provider, model>>]
    ELSE [id |-> n + 1, api_key |-> GetApiKey(keys, Lower(provider))]

\* ClientsAfterGet without the insertion into the cache
ClientsAfterGet_NoInsert(cl, keys, n, provider, model) == cl

\* AIClientManager.get_client: the cache it leaves
ClientsAfterGet(cl, keys, n, provider, model) ==
    IF ClientResolves(cl, keys, provider, model) /\ <<provider, model>> \notin DOMAIN cl
    THEN [key \in DOMAIN cl \cup {<<provider, model>>} |->
             IF key = <<provider, model>> THEN GetClient(cl, keys, n, provider, model)
             ELSE cl[key]]
    ELSE cl

\* AIClientManager.get_client: the number of clients constructed after it
ConstructedAfterGet(cl, keys, n, provider, model) ==
    IF ClientResolves(cl, keys, provider, model) /\ <<provider, model>> \notin DOMAIN cl
    THEN n + 1 ELSE n

\* AIClientManager.clear_cache
ClearCache == [key \in {} |-> None]

\* ------------------------------------------------------------- initial state
\* MainWindow.__init__ on an empty database, with whatever api keys the config
\* file holds from earlier runs:
\* init_first_session creates the welcome session and selects it
InitProgram ==
    /\ db_sessions = [x \in {1} |-> [title |-> WelcomeTitle, ai_model |-> DefaultModel,
                                      system_prompt |-> <<>>]]
    /\ db_recent = <<1>>
    /\ db_messages = <<>>
    /\ next_session_id = 2
    /\ session_cache = [x \in {1} |-> [title |-> WelcomeTitle, ai_model |-> DefaultModel,
                                        system_prompt |-> <<>>]]
    /\ sm_current = 1
    /\ \E stored \in SUBSET KeyProviders :
          api_keys = [p \in Providers |-> IF p \in stored THEN 1 ELSE 0]
    /\ clients = ClearCache
    /\ constructed = 0
    /\ cw_current = 1
    /\ is_generating = FALSE
    /\ input_enabled = TRUE
    /\ stop_enabled = FALSE
    /\ streaming_response = <<>>
    /\ current_ai_bubble = None
    /\ ai_threads = <<>>
    /\ queue = <<>>
    /\ timers = <<>>
    /\ title_threads = <<>>
    /\ gui_pc = [steps |-> <<>>, arg |-> <<>>, session |-> NoId, yielded |-> 0, thread |-> 0]
    /\ last = [op |-> "init", result |-> "ok", emitted |-> <<>>]

Init ==
    /\ InitProgram
    /\ submits_left = MaxSubmits
    /\ gestures_left = MaxGestures

LiveInit ==
    /\ InitProgram
    /\ submits_left = LiveSubmits
    /\ gestures_left = LiveGestures

\* ------------------------------------------------------------ chat widget
GuiIdle == gui_pc.steps = <<>>

\* the GUI thread is back in the event loop
GuiReturned == [steps |-> <<>>, arg |-> <<>>, session |-> NoId, yielded |-> 0, thread |-> 0]

\* SetIdleControls leaving the stop button as it is
SetIdleControls_StopUntouched ==
    /\ is_generating' = FALSE
    /\ input_enabled' = TRUE
    /\ UNCHANGED stop_enabled

\* the controls and the flag as the three terminal handlers leave them
SetIdleControls ==
    /\ is_generating' = FALSE
    /\ input_enabled' = TRUE
    /\ stop_enabled' = FALSE

\* ghost bookkeeping of the pending timers: a timer is disturbed once the chat
\* widget shows another session than before, or its triggering session is deleted
Disturb(ts, new_current, deleted) ==
    [i \in 1..Len(ts) |->
        [ts[i] EXCEPT !.disturbed = @ \/ new_current # cw_current \/ ts[i].trigger \in deleted]]

\* SubmitOutcome with the submit also refused while a title timer is pending
\* or a title thread runs
SubmitOutcome_TitleBusy(text) ==
    IF is_generating \/ timers # <<>>
          \/ \E k \in 1..Len(title_threads) : title_threads[k].state # "done"
    THEN "rejected_generating"
    ELSE IF Strip(text) = <<>> THEN "rejected_empty"
    ELSE IF cw_current = NoId THEN "rejected_no_session"
    ELSE "accepted"

\* ChatWidget.send_message: its three early returns
SubmitOutcome(text) ==
    IF is_generating THEN "rejected_generating"
    ELSE IF Strip(text) = <<>> THEN "rejected_empty"
    ELSE IF cw_current = NoId THEN "rejected_no_session"
    ELSE "accepted"

\* ChatWidget.send_message followed by ChatWidget.start_ai_response
SendMessage(text) ==
    /\ GuiIdle
    /\ IF SubmitOutcome(text) # "accepted"
       THEN /\ last' = [op |-> "send_message", result |-> SubmitOutcome(text), emitted |-> <<>>]
            /\ UNCHANGED <<db_vars, sm_vars, reg_vars, cw_vars, ai_threads, queue,
                           timers, title_threads, gui_pc, budget_vars>>
       ELSE /\ submits_left > 0
            /\ submits_left' = submits_left - 1
            /\ db_messages' = DbAddMessage(db_messages, cw_current, "user", Strip(text))
            /\ db_recent' = Touch(db_recent, cw_current)
            /\ UNCHANGED <<db_sessions, next_session_id, sm_current, api_keys, cw_current,
                           queue, timers, title_threads, gui_pc, gestures_left>>
            /\ IF ~HasSession(session_cache, db_sessions, cw_current)
               THEN /\ last' = [op |-> "send_message", result |-> "no_session",
                                emitted |-> <<"message_sent">>]
                    /\ UNCHANGED <<session_cache, clients, constructed, is_generating,
                                   input_enabled, stop_enabled, streaming_response,
                                   current_ai_bubble, ai_threads>>
               ELSE LET session == GetSession(session_cache, db_sessions, cw_current)
                        parsed == ParseModel(session.ai_model)
                        cache1 == CacheAfterGet(session_cache, db_sessions, cw_current)
                    IN  /\ session_cache' = cache1
                        /\ IF ~ClientResolves(clients, api_keys, parsed.provider, parsed.model)
                           THEN /\ last' = [op |-> "send_message", result |-> "no_client",
                                            emitted |-> <<"message_sent">>]
                                /\ UNCHANGED <<clients, constructed, is_generating,
                                               input_enabled, stop_enabled,
                                               streaming_response, current_ai_bubble,
                                               ai_threads>>
                           ELSE /\ clients' = ClientsAfterGet(clients, api_keys, constructed,
                                                              parsed.provider, parsed.model)
                                /\ constructed' = ConstructedAfterGet(clients, api_keys,
                                        constructed, parsed.provider, parsed.model)
                                /\ is_generating' = TRUE
                                /\ input_enabled' = FALSE
                                /\ stop_enabled' = TRUE
                                /\ streaming_response' = <<>>
                                /\ current_ai_bubble' = [exists |-> TRUE, streaming |-> TRUE,
                                                         content |-> <<>>]
                                /\ ai_threads' = Append(ai_threads,
                                       [state |-> "running",
                                        messages |-> GetConversationContext(cache1, db_sessions,
                                                         db_messages', cw_current),
                                        full_response |-> <<>>,
                                        pos |-> 0,
                                        session |-> cw_current,
                                        client |-> GetClient(clients, api_keys, constructed,
                                                       parsed.provider, parsed.model)])
                                /\ last' = [op |-> "send_message", result |-> "started",
                                            emitted |-> <<"message_sent", "generation_started">>]

\* --------------------------------------------------------- AIResponseThread
\* a thread that has ended: nothing reads its fields any more, only isRunning()
EndedThread(state) ==
    [state |-> state, messages |-> <<>>, full_response |-> <<>>, pos |-> 0, session |-> NoId,
     client |-> None]

\* a signal of thread t as Qt queues it; `session`, `yielded` and `thread` are
\* ghost fields: the session the thread's user message was submitted in, the
\* number of fragments the provider client had yielded to it, and the thread
Signal(sig, arg, t) ==
    [sig |-> sig, arg |-> arg, session |-> ai_threads[t].session, yielded |-> ai_threads[t].pos,
     thread |-> t]

\* AIResponseThread._get_response, one iteration of the async for: the text
\* the thread has accumulated after `chunk`
Accumulate(full_response, chunk) ==
    IF chunk # <<>> /\ ~StartsWithError(chunk) THEN full_response \o chunk ELSE full_response

\* the provider client yields one more fragment: the next one of the response,
\* or the error fragment it makes of a failed request
WorkerChunk(t, chunk) ==
    /\ ai_threads[t].state = "running"
    /\ \/ ai_threads[t].pos < Len(Script) /\ chunk = Script[ai_threads[t].pos + 1]
       \/ chunk = ErrorFragment
    /\ IF chunk # <<>> /\ ~StartsWithError(chunk)
       THEN /\ ai_threads' = [ai_threads EXCEPT
                                 ![t].full_response = Accumulate(@, chunk),
                                 ![t].pos = @ + 1]
            /\ queue' = Append(queue, Signal("response_chunk", chunk, t))
       ELSE IF StartsWithError(chunk)
       THEN /\ ai_threads' = [ai_threads EXCEPT ![t] = EndedThread("done")]
            /\ queue' = Append(queue, Signal("response_error", chunk, t))
       ELSE /\ ai_threads' = [ai_threads EXCEPT ![t].pos = @ + 1]
            /\ UNCHANGED queue
    /\ UNCHANGED <<db_vars, sm_vars, reg_vars, cw_vars, timers, title_threads, gui_pc, budget_vars, last>>

\* the stream is exhausted: response_finished.emit(self.full_response)
WorkerEnd(t) ==
    /\ ai_threads[t].state = "running"
    /\ ai_threads' = [ai_threads EXCEPT ![t] = EndedThread("done")]
    /\ queue' = Append(queue, Signal("response_finished", ai_threads[t].full_response, t))
    /\ UNCHANGED <<db_vars, sm_vars, reg_vars, cw_vars, timers, title_threads, gui_pc, budget_vars, last>>

\* the stream raises: response_error.emit(str(e))
WorkerException(t) ==
    /\ ai_threads[t].state = "running"
    /\ ai_threads' = [ai_threads EXCEPT ![t] = EndedThread("done")]
    /\ queue' = Append(queue, Signal("response_error", <<"exception">>, t))
    /\ UNCHANGED <<db_vars, sm_vars, reg_vars, cw_vars, timers, title_threads, gui_pc, budget_vars, last>>

\* ----------------------------------------------- chat widget: worker signals
\* ChatWidget.on_ai_response_chunk; the 100 ms throttle either lets the bubble
\* be updated or not
OnAiResponseChunk ==
    /\ GuiIdle
    /\ queue # <<>>
    /\ Head(queue).sig = "response_chunk"
    /\ queue' = Tail(queue)
    /\ streaming_response' = streaming_response \o Head(queue).arg
    /\ \E update \in BOOLEAN :
          current_ai_bubble' =
              IF update /\ current_ai_bubble.exists /\ streaming_response' # <<>>
              THEN [current_ai_bubble EXCEPT !.content = streaming_response']
              ELSE current_ai_bubble
    /\ last' = [op |-> "on_ai_response_chunk", result |-> "ok", emitted |-> <<>>]
    /\ UNCHANGED <<db_vars, sm_vars, reg_vars, cw_current, is_generating, input_enabled,
                   stop_enabled, ai_threads, timers, title_threads, gui_pc, budget_vars>>

\* FinishedSteps with generation_finished emitted ahead of the store write
FinishedSteps_NotifyFirst == <<"notify", "persist">>

\* FinishedSteps with the handler returning right after the store write
FinishedSteps_NoReset == <<"persist">>

\* ChatWidget.on_ai_response_finished, as the order of its two effects: the
\* store write (add_assistant_message) and then everything that follows it
FinishedSteps == <<"persist", "notify">>

\* ChatWidget._check_and_start_renaming: the trigger condition
TitleTrigger(title, message_count) == title = DefaultTitle /\ message_count = 2

\* the GUI thread takes response_finished off the queue and enters the handler
OnAiResponseFinished ==
    /\ GuiIdle
    /\ queue # <<>>
    /\ Head(queue).sig = "response_finished"
    /\ queue' = Tail(queue)
    /\ gui_pc' = [steps |-> FinishedSteps, arg |-> Head(queue).arg,
                  session |-> Head(queue).session, yielded |-> Head(queue).yielded,
                  thread |-> Head(queue).thread]
    /\ last' = [op |-> "on_ai_response_finished", result |-> "enter", emitted |-> <<>>]
    /\ UNCHANGED <<db_vars, sm_vars, reg_vars, cw_vars, ai_threads, timers, title_threads,
                   submits_left, gestures_left>>

\* the next effect of on_ai_response_finished
FinishedStep ==
    /\ ~GuiIdle
    /\ gui_pc' = IF Len(gui_pc.steps) = 1 THEN GuiReturned
                  ELSE [gui_pc EXCEPT !.steps = Tail(@)]
    /\ IF Head(gui_pc.steps) = "persist"
       THEN \* add_assistant_message(full_response, self.current_session_id)
            LET sid == IF cw_current = NoId THEN sm_current ELSE cw_current
            IN  /\ IF sid = NoId
                   THEN UNCHANGED <<db_messages, db_recent>>
                   ELSE /\ db_messages' = DbAddMessage(db_messages, sid, "assistant", gui_pc.arg)
                        /\ db_recent' = Touch(db_recent, sid)
                /\ last' = [op |-> "on_ai_response_finished", result |-> "persist",
                            emitted |-> <<>>]
                /\ UNCHANGED <<db_sessions, next_session_id, sm_vars, cw_vars, timers>>
       ELSE \* the bubble, the controls, generation_finished, _check_and_start_renaming
            /\ current_ai_bubble' = None
            /\ SetIdleControls
            /\ last' = [op |-> "on_ai_response_finished", result |-> "notify",
                        emitted |-> <<"generation_finished">>]
            /\ IF HasSession(session_cache, db_sessions, cw_current)
               THEN /\ session_cache' = CacheAfterGet(session_cache, db_sessions, cw_current)
                    /\ timers' =
                         IF TitleTrigger(GetSession(session_cache, db_sessions, cw_current).title,
                                Len(GetSessionMessages(db_messages, cw_current, sm_current,
                                                       MessagesLimit)))
                         THEN Append(timers, [trigger |-> cw_current, disturbed |-> FALSE])
                         ELSE timers
               ELSE UNCHANGED <<session_cache, timers>>
            /\ UNCHANGED <<db_vars, sm_current, cw_current, streaming_response>>
    /\ UNCHANGED <<reg_vars, ai_threads, queue, title_threads, budget_vars>>

\* on_ai_response_error answering an error by opening the stream again for the
\* same turn
OnAiResponseError_Retries ==
    /\ GuiIdle
    /\ queue # <<>>
    /\ Head(queue).sig = "response_error"
    /\ queue' = Tail(queue)
    /\ ai_threads' = Append(ai_threads,
           [state |-> "running", messages |-> <<>>, full_response |-> <<>>, pos |-> 0,
            session |-> Head(queue).session, client |-> None])
    /\ last' = [op |-> "on_ai_response_error", result |-> "retried", emitted |-> <<>>]
    /\ UNCHANGED <<db_vars, sm_vars, reg_vars, cw_vars, timers, title_threads, gui_pc,
                   budget_vars>>

\* ChatWidget.on_ai_response_error
OnAiResponseError ==
    /\ GuiIdle
    /\ queue # <<>>
    /\ Head(queue).sig = "response_error"
    /\ queue' = Tail(queue)
    /\ current_ai_bubble' = None
    /\ SetIdleControls
    /\ last' = [op |-> "on_ai_response_error",
                result |-> IF current_ai_bubble.exists THEN "shown" ELSE "not_shown",
                emitted |-> <<"generation_finished">>]
    /\ UNCHANGED <<db_vars, sm_vars, reg_vars, cw_current, streaming_response, ai_threads,
                   timers, title_threads, gui_pc, budget_vars>>

\* ChatWidget.stop_generation (stop button, Esc, MainWindow.closeEvent)
StopGeneration ==
    /\ GuiIdle
    /\ gestures_left > 0
    /\ gestures_left' = gestures_left - 1
    /\ UNCHANGED submits_left
    /\ ai_threads' =
          IF ai_threads # <<>> /\ ai_threads[Len(ai_threads)].state = "running"
          THEN [ai_threads EXCEPT ![Len(ai_threads)] = EndedThread("terminated")]
          ELSE ai_threads
    /\ SetIdleControls
    /\ last' = [op |-> "stop_generation",
                result |-> IF is_generating THEN "stopped" ELSE "idle",
                emitted |-> <<"generation_finished">>]
    /\ UNCHANGED <<db_vars, sm_vars, reg_vars, cw_current, streaming_response,
                   current_ai_bubble, queue, timers, title_threads, gui_pc>>

\* -------------------------------------------------------- session switching
\* SessionPanel.select_session -> MainWindow.on_session_selected ->
\* SessionManager.switch_to_session, ChatWidget.load_session
SelectSession(sid) ==
    /\ GuiIdle
    /\ gestures_left > 0
    /\ gestures_left' = gestures_left - 1
    /\ UNCHANGED submits_left
    /\ sid \in DOMAIN db_sessions
    /\ session_cache' = CacheAfterGet(session_cache, db_sessions, sid)
    /\ sm_current' = sid
    /\ cw_current' = sid
    /\ current_ai_bubble' = None
    /\ timers' = Disturb(timers, sid, {})
    /\ last' = [op |-> "select_session", result |-> "ok", emitted |-> <<>>]
    /\ UNCHANGED <<db_vars, reg_vars, is_generating, input_enabled, stop_enabled,
                   streaming_response, ai_threads, queue, title_threads, gui_pc>>

\* MainWindow.new_session
NewSession ==
    /\ GuiIdle
    /\ gestures_left > 0
    /\ gestures_left' = gestures_left - 1
    /\ UNCHANGED submits_left
    /\ next_session_id <= MaxSessions
    /\ db_sessions' = DbCreateSession(next_session_id, DefaultTitle)
    /\ db_recent' = <<next_session_id>> \o db_recent
    /\ next_session_id' = next_session_id + 1
    /\ session_cache' = [x \in DOMAIN session_cache \cup {next_session_id} |->
                            IF x = next_session_id THEN db_sessions'[x] ELSE session_cache[x]]
    /\ sm_current' = next_session_id
    /\ cw_current' = next_session_id
    /\ current_ai_bubble' = None
    /\ timers' = Disturb(timers, next_session_id, {})
    /\ last' = [op |-> "new_session", result |-> "ok", emitted |-> <<>>]
    /\ UNCHANGED <<db_messages, reg_vars, is_generating, input_enabled, stop_enabled,
                   streaming_response, ai_threads, queue, title_threads, gui_pc>>

\* SessionPanel.delete_session -> SessionManager.delete_session ->
\* MainWindow.on_session_deleted -> SessionPanel.refresh_sessions.
\* The DELETE removes the sessions row only: the connection never enables
\* foreign keys, so ON DELETE CASCADE does not run.
DeleteSession(sid) ==
    /\ GuiIdle
    /\ gestures_left > 0
    /\ gestures_left' = gestures_left - 1
    /\ UNCHANGED submits_left
    /\ sid \in DOMAIN db_sessions
    /\ LET rest == Remove(db_recent, sid)
           cache1 == [x \in DOMAIN session_cache \ {sid} |-> session_cache[x]]
       IN  IF sm_current # sid
           THEN \* refresh_sessions selects the current session again
                /\ db_sessions' = [x \in DOMAIN db_sessions \ {sid} |-> db_sessions[x]]
                /\ db_recent' = rest
                /\ session_cache' = IF sm_current = NoId THEN cache1
                                    ELSE CacheAfterGet(cache1, db_sessions', sm_current)
                /\ cw_current' = IF sm_current = NoId THEN cw_current ELSE sm_current
                /\ timers' = Disturb(timers, cw_current', {sid})
                /\ UNCHANGED <<sm_current, next_session_id>>
           ELSE IF rest # <<>>
           THEN \* on_session_deleted selects the most recently updated session
                /\ db_sessions' = [x \in DOMAIN db_sessions \ {sid} |-> db_sessions[x]]
                /\ db_recent' = rest
                /\ session_cache' = CacheAfterGet(cache1, db_sessions', Head(rest))
                /\ sm_current' = Head(rest)
                /\ cw_current' = Head(rest)
                /\ timers' = Disturb(timers, Head(rest), {sid})
                /\ UNCHANGED next_session_id
           ELSE \* on_session_deleted creates a new session
                /\ next_session_id <= MaxSessions
                /\ db_sessions' = [x \in {next_session_id} |->
                                     [title |-> DefaultTitle, ai_model |-> DefaultModel,
                                      system_prompt |-> <<>>]]
                /\ db_recent' = <<next_session_id>>
                /\ next_session_id' = next_session_id + 1
                /\ session_cache' = [x \in (DOMAIN cache1) \cup {next_session_id} |->
                                       IF x = next_session_id THEN db_sessions'[x] ELSE cache1[x]]
                /\ sm_current' = next_session_id
                /\ cw_current' = next_session_id
                /\ timers' = Disturb(timers, next_session_id, {sid})
    /\ current_ai_bubble' = None
    /\ last' = [op |-> "delete_session", result |-> "ok", emitted |-> <<>>]
    /\ UNCHANGED <<db_messages, reg_vars, is_generating, input_enabled, stop_enabled,
                   streaming_response, ai_threads, queue, title_threads, gui_pc>>

\* SessionManager.clear_session_messages: delete_message for every message
\* get_session_messages(session_id, limit=10000) lists
DbClearMessages(msgs, sid) == SelectSeq(msgs, LAMBDA m : m.session_id # sid)

\* ChatWidget.clear_session (clear button, MainWindow.clear_current_session);
\* the user confirms the dialog or cancels it
ClearSession ==
    /\ GuiIdle
    /\ gestures_left > 0
    /\ gestures_left' = gestures_left - 1
    /\ UNCHANGED submits_left
    /\ IF cw_current = NoId \/ is_generating
       THEN /\ last' = [op |-> "clear_session",
                        result |-> IF cw_current = NoId THEN "no_session"
                                   ELSE "rejected_generating",
                        emitted |-> <<>>]
            /\ UNCHANGED <<db_messages, session_cache, current_ai_bubble>>
       ELSE \E confirmed \in BOOLEAN :
               IF confirmed
               THEN /\ db_messages' = DbClearMessages(db_messages, cw_current)
                    /\ session_cache' = CacheAfterGet(session_cache, db_sessions, cw_current)
                    /\ current_ai_bubble' = None
                    /\ last' = [op |-> "clear_session", result |-> "cleared", emitted |-> <<>>]
               ELSE /\ last' = [op |-> "clear_session", result |-> "cancelled",
                                emitted |-> <<>>]
                    /\ UNCHANGED <<db_messages, session_cache, current_ai_bubble>>
    /\ UNCHANGED <<db_sessions, db_recent, next_session_id, sm_current, reg_vars, cw_current,
                   is_generating, input_enabled, stop_enabled, streaming_response, ai_threads,
                   queue, timers, title_threads, gui_pc>>

\* SessionManager.update_session_title: the cache it leaves
CacheAfterTitle(cache, sessions, sid, title) ==
    IF sid \in DOMAIN sessions /\ sid \in DOMAIN cache
    THEN [cache EXCEPT ![sid].title = title]
    ELSE cache

\* DbUpdateTitle as an upsert: the row is written whether or not it exists
DbUpdateTitle_Upsert(sessions, sid, title) ==
    [x \in DOMAIN sessions \cup {sid} |->
        IF x = sid THEN [title |-> title, ai_model |-> DefaultModel, system_prompt |-> <<>>]
        ELSE sessions[x]]

\* DatabaseManager.update_session(session_id, title=...)
DbUpdateTitle(sessions, sid, title) ==
    IF sid \in DOMAIN sessions THEN [sessions EXCEPT ![sid].title = title] ELSE sessions

\* SessionPanel.rename_session -> SessionManager.update_session_title ->
\* SessionPanel.refresh_sessions
RenameSession(sid, text) ==
    /\ GuiIdle
    /\ gestures_left > 0
    /\ gestures_left' = gestures_left - 1
    /\ UNCHANGED submits_left
    /\ sid \in DOMAIN db_sessions
    /\ Strip(text) # <<>>
    /\ db_sessions' = DbUpdateTitle(db_sessions, sid, Strip(text))
    /\ db_recent' = Touch(db_recent, sid)
    /\ LET cache1 == CacheAfterTitle(CacheAfterGet(session_cache, db_sessions, sid),
                                     db_sessions, sid, Strip(text))
       IN  session_cache' = IF sm_current = NoId THEN cache1
                            ELSE CacheAfterGet(cache1, db_sessions', sm_current)
    /\ cw_current' = IF sm_current = NoId THEN cw_current ELSE sm_current
    /\ current_ai_bubble' = IF sm_current = NoId THEN current_ai_bubble ELSE None
    /\ timers' = Disturb(timers, cw_current', {})
    /\ last' = [op |-> "rename_session", result |-> "ok", emitted |-> <<>>]
    /\ UNCHANGED <<db_messages, next_session_id, sm_current, reg_vars, is_generating,
                   input_enabled, stop_enabled, streaming_response, ai_threads, queue,
                   title_threads, gui_pc>>

\* SettingsDialog.apply_settings -> ConfigManager.set_api_key
\* with a new key typed for one provider; the cached clients are left alone
ApplySettings(provider, key) ==
    /\ GuiIdle
    /\ gestures_left > 0
    /\ gestures_left' = gestures_left - 1
    /\ UNCHANGED submits_left
    /\ key = api_keys[provider] + 1
    /\ api_keys' = [api_keys EXCEPT ![provider] = key]
    /\ last' = [op |-> "apply_settings", result |-> "ok", emitted |-> <<>>]
    /\ UNCHANGED <<db_vars, sm_vars, clients, constructed, cw_vars, ai_threads, queue,
                   timers, title_threads, gui_pc>>

\* DatabaseManager.update_session(session_id, ai_model=...)
DbUpdateModel(sessions, sid, ai_model) ==
    IF sid \in DOMAIN sessions THEN [sessions EXCEPT ![sid].ai_model = ai_model] ELSE sessions

\* MainWindow.on_model_selected -> SessionManager.update_session_model ->
\* AIClientManager.clear_cache, ChatWidget.update_model_label
OnModelSelected(model_key) ==
    /\ GuiIdle
    /\ gestures_left > 0
    /\ gestures_left' = gestures_left - 1
    /\ UNCHANGED submits_left
    /\ GetApiKey(api_keys, Head(model_key)) # 0
    /\ sm_current # NoId
    /\ HasSession(session_cache, db_sessions, sm_current)
    /\ db_sessions' = DbUpdateModel(db_sessions, sm_current, model_key)
    /\ LET cache1 == CacheAfterGet(session_cache, db_sessions, sm_current)
           cache2 == IF sm_current \in DOMAIN db_sessions
                     THEN [cache1 EXCEPT ![sm_current].ai_model = model_key]
                     ELSE cache1
       IN  session_cache' = IF sm_current \in DOMAIN db_sessions
                            THEN CacheAfterGet(cache2, db_sessions', cw_current)
                            ELSE cache2
    /\ db_recent' = Touch(db_recent, sm_current)
    /\ clients' = IF sm_current \in DOMAIN db_sessions THEN ClearCache ELSE clients
    /\ last' = [op |-> "on_model_selected",
                result |-> IF sm_current \in DOMAIN db_sessions THEN "ok" ELSE "failed",
                emitted |-> <<>>]
    /\ UNCHANGED <<db_messages, next_session_id, sm_current, api_keys, constructed, cw_vars,
                   ai_threads, queue, timers, title_threads, gui_pc>>

\* ----------------------------------------------------------- title synthesis
\* ChatWidget._start_delayed_renaming: the oldest pending timer fires
StartDelayedRenaming ==
    /\ GuiIdle
    /\ timers # <<>>
    /\ timers' = Tail(timers)
    /\ IF ~HasSession(session_cache, db_sessions, cw_current)
       THEN /\ last' = [op |-> "_start_delayed_renaming", result |-> "no_session",
                        emitted |-> <<>>]
            /\ UNCHANGED <<session_cache, clients, constructed, title_threads>>
       ELSE LET session == GetSession(session_cache, db_sessions, cw_current)
                parsed == ParseTitleModel(session.ai_model)
            IN  /\ session_cache' = CacheAfterGet(session_cache, db_sessions, cw_current)
                /\ clients' = ClientsAfterGet(clients, api_keys, constructed,
                                              parsed.provider, parsed.model)
                /\ constructed' = ConstructedAfterGet(clients, api_keys, constructed,
                                                      parsed.provider, parsed.model)
                /\ IF ClientResolves(clients, api_keys, parsed.provider, parsed.model)
                   THEN /\ title_threads' = Append(title_threads,
                               [state |-> "started",
                                session_id |-> cw_current,
                                user_message |-> <<>>,
                                trigger |-> Head(timers).trigger,
                                disturbed |-> Head(timers).disturbed,
                                returned |-> <<>>,
                                ai_client |-> GetClient(clients, api_keys, constructed,
                                                 parsed.provider, parsed.model)])
                        /\ last' = [op |-> "_start_delayed_renaming", result |-> "started",
                                    emitted |-> <<>>]
                   ELSE /\ UNCHANGED title_threads
                        /\ last' = [op |-> "_start_delayed_renaming", result |-> "no_client",
                                    emitted |-> <<>>]
    /\ UNCHANGED <<db_vars, sm_current, api_keys, cw_vars, ai_threads, queue, gui_pc, budget_vars>>

\* TitleGenerationThread.finished_renaming as Qt queues it
TitleSignal ==
    [sig |-> "finished_renaming", arg |-> <<>>, session |-> NoId, yielded |-> 0, thread |-> 0]

\* a title thread that has ended: its session, and the title that
\* auto_generate_session_title returned (<<>> for Python None)
EndedTitleThread(sid, returned) ==
    [state |-> "done", session_id |-> sid, user_message |-> <<>>, trigger |-> NoId,
     disturbed |-> FALSE, returned |-> returned, ai_client |-> None]

\* SessionManager.auto_generate_session_title up to the completion call: the
\* first user message among the first TitleLimit messages of the session
TitleCall(k) ==
    /\ title_threads[k].state = "started"
    /\ LET messages == GetSessionMessages(db_messages, title_threads[k].session_id,
                                          sm_current, TitleLimit)
           user_messages == SelectSeq(messages, LAMBDA m : m.role = "user")
       IN  IF user_messages = <<>>
           THEN /\ title_threads' = [title_threads EXCEPT
                                        ![k] = EndedTitleThread(@.session_id, <<>>)]
                /\ queue' = Append(queue, TitleSignal)
           ELSE /\ title_threads' = [title_threads EXCEPT
                                        ![k].state = "awaiting",
                                        ![k].user_message = user_messages[1].content]
                /\ UNCHANGED queue
    /\ UNCHANGED <<db_vars, sm_vars, reg_vars, cw_vars, ai_threads, timers, gui_pc, budget_vars, last>>

\* SessionManager.auto_generate_session_title from the completion's response
\* on.  A usable title is written to the store by update_session_title, on the
\* title thread; the thread then stands between db.update_session and the
\* write to the session cache.  Every other outcome returns None, and
\* TitleGenerationThread.run emits finished_renaming.
TitleResponse(k, response) ==
    /\ title_threads[k].state = "awaiting"
    /\ LET sid == title_threads[k].session_id
           new_title == CleanTitle(response.content)
       IN  IF ~response.error /\ response.content # <<>> /\ new_title # <<>>
           THEN /\ db_sessions' = DbUpdateTitle(db_sessions, sid, new_title)
                /\ db_recent' = Touch(db_recent, sid)
                /\ IF sid \in DOMAIN db_sessions
                   THEN /\ title_threads' = [title_threads EXCEPT ![k].state = "updating",
                                                                  ![k].returned = new_title]
                        /\ UNCHANGED queue
                   ELSE /\ title_threads' = [title_threads EXCEPT
                                                ![k] = EndedTitleThread(sid, <<>>)]
                        /\ queue' = Append(queue, TitleSignal)
           ELSE /\ UNCHANGED <<db_sessions, db_recent>>
                /\ title_threads' = [title_threads EXCEPT ![k] = EndedTitleThread(sid, <<>>)]
                /\ queue' = Append(queue, TitleSignal)
    /\ UNCHANGED <<db_messages, next_session_id, sm_vars, reg_vars, cw_vars, ai_threads,
                   timers, gui_pc, budget_vars, last>>

\* SessionManager.update_session_title after a successful db.update_session:
\* the cache it leaves
CacheWriteTitle(cache, sid, title) ==
    IF sid \in DOMAIN cache THEN [cache EXCEPT ![sid].title = title] ELSE cache

\* the title thread writes the cached title, auto_generate_session_title
\* returns the title and TitleGenerationThread.run emits finished_renaming
TitleCacheWrite(k) ==
    /\ title_threads[k].state = "updating"
    /\ session_cache' = CacheWriteTitle(session_cache, title_threads[k].session_id,
                                        title_threads[k].returned)
    /\ title_threads' = [title_threads EXCEPT
                             ![k] = EndedTitleThread(@.session_id, @.returned)]
    /\ queue' = Append(queue, TitleSignal)
    /\ UNCHANGED <<db_vars, sm_current, reg_vars, cw_vars, ai_threads, timers, gui_pc,
                   budget_vars, last>>

\* SessionManager.auto_generate_session_title when client.chat_completion raises:
\* the except branch returns None
TitleException(k) ==
    /\ title_threads[k].state = "awaiting"
    /\ title_threads' = [title_threads EXCEPT ![k] = EndedTitleThread(@.session_id, <<>>)]
    /\ queue' = Append(queue, TitleSignal)
    /\ UNCHANGED <<db_vars, sm_vars, reg_vars, cw_vars, ai_threads, timers, gui_pc,
                   budget_vars, last>>

\* ChatWidget.on_title_generated -> session_renamed -> SessionPanel.refresh_sessions
OnTitleGenerated ==
    /\ GuiIdle
    /\ queue # <<>>
    /\ Head(queue).sig = "finished_renaming"
    /\ queue' = Tail(queue)
    /\ session_cache' = IF sm_current = NoId THEN session_cache
                        ELSE CacheAfterGet(session_cache, db_sessions, sm_current)
    /\ cw_current' = IF sm_current = NoId THEN cw_current ELSE sm_current
    /\ current_ai_bubble' = IF sm_current = NoId THEN current_ai_bubble ELSE None
    /\ timers' = Disturb(timers, cw_current', {})
    /\ last' = [op |-> "on_title_generated", result |-> "ok", emitted |-> <<"session_renamed">>]
    /\ UNCHANGED <<db_vars, sm_current, reg_vars, is_generating, input_enabled, stop_enabled,
                   streaming_response, ai_threads, title_threads, gui_pc, budget_vars>>

\* ------------------------------------------------------------ specification
\* The two handlers that parse a model string, started on a database whose
\* only session has any model string in its ai_model column, holds its first
\* exchange and has its title timer pending.
Segments == {"deepseek", "deepseek-chat", "openrouter", "OpenRouter", "anthropic"}

ModelStrings == UNION {[1..n -> Segments] : n \in 1..MaxSegments}

ParseInit ==
    /\ \E ai_model \in ModelStrings :
          /\ db_sessions = [x \in {1} |-> [title |-> DefaultTitle, ai_model |-> ai_model,
                                            system_prompt |-> <<>>]]
          /\ session_cache = db_sessions
    /\ db_recent = <<1>>
    /\ db_messages = << [session_id |-> 1, role |-> "user", content |-> <<"Hello">>,
                          timestamp |-> 1],
                        [session_id |-> 1, role |-> "assistant", content |-> <<"Hi", " there">>,
                          timestamp |-> 2] >>
    /\ next_session_id = 2
    /\ sm_current = 1
    /\ api_keys \in [Providers -> {0, 1}]
    /\ clients = ClearCache
    /\ constructed = 0
    /\ cw_current = 1
    /\ is_generating = FALSE
    /\ input_enabled = TRUE
    /\ stop_enabled = FALSE
    /\ streaming_response = <<>>
    /\ current_ai_bubble = None
    /\ ai_threads = <<>>
    /\ queue = <<>>
    /\ timers = <<[trigger |-> 1, disturbed |-> FALSE]>>
    /\ title_threads = <<>>
    /\ gui_pc = GuiReturned
    /\ last = [op |-> "init", result |-> "ok", emitted |-> <<>>]
    /\ submits_left = LiveSubmits
    /\ gestures_left = 0

ParseNext ==
    \/ \E text \in Inputs : SendMessage(text)
    \/ StartDelayedRenaming

ParseSpec == ParseInit /\ [][ParseNext]_vars

\* send_message on a database whose only session already holds up to
\* MaxStored messages, user and assistant in turn, with or without a system prompt
SystemPrompts == {<<>>, <<"Be brief">>}

StoredMessages(n) ==
    [i \in 1..n |-> [session_id |-> 1,
                     role |-> IF i % 2 = 1 THEN "user" ELSE "assistant",
                     content |-> <<ToString(i)>>,
                     timestamp |-> i]]

ContextInit ==
    /\ \E system_prompt \in SystemPrompts :
          /\ db_sessions = [x \in {1} |-> [title |-> WelcomeTitle, ai_model |-> DefaultModel,
                                            system_prompt |-> system_prompt]]
          /\ session_cache = db_sessions
    /\ \E n \in 0..MaxStored : db_messages = StoredMessages(n)
    /\ db_recent = <<1>>
    /\ next_session_id = 2
    /\ sm_current = 1
    /\ api_keys \in [Providers -> {0, 1}]
    /\ clients = ClearCache
    /\ constructed = 0
    /\ cw_current = 1
    /\ is_generating = FALSE
    /\ input_enabled = TRUE
    /\ stop_enabled = FALSE
    /\ streaming_response = <<>>
    /\ current_ai_bubble = None
    /\ ai_threads = <<>>
    /\ queue = <<>>
    /\ timers = <<>>
    /\ title_threads = <<>>
    /\ gui_pc = GuiReturned
    /\ last = [op |-> "init", result |-> "ok", emitted |-> <<>>]
    /\ submits_left = LiveSubmits
    /\ gestures_left = 0

ContextNext == \E text \in Inputs : SendMessage(text)

ContextSpec == ContextInit /\ [][ContextNext]_vars

\* --------------------------------------------------- appends and listings
\* DatabaseManager.add_message under any reading of the wall clock: the naive
\* local datetime.now() may repeat a reading or fall behind an earlier one
ClockReadings == 1..MaxClock

OrderSessions == {1, 2}

OrderInit ==
    /\ db_sessions = [x \in OrderSessions |-> [title |-> DefaultTitle, ai_model |-> DefaultModel,
                                               system_prompt |-> <<>>]]
    /\ session_cache = db_sessions
    /\ db_messages = <<>>
    /\ db_recent = <<2, 1>>
    /\ next_session_id = 3
    /\ sm_current = 2
    /\ api_keys = [provider \in Providers |-> 0]
    /\ clients = ClearCache
    /\ constructed = 0
    /\ cw_current = 2
    /\ is_generating = FALSE
    /\ input_enabled = TRUE
    /\ stop_enabled = FALSE
    /\ streaming_response = <<>>
    /\ current_ai_bubble = None
    /\ ai_threads = <<>>
    /\ queue = <<>>
    /\ timers = <<>>
    /\ title_threads = <<>>
    /\ gui_pc = GuiReturned
    /\ last = [op |-> "init", result |-> "ok", emitted |-> <<>>]
    /\ submits_left = 0
    /\ gestures_left = 0

AddMessage(sid, role, content, now) ==
    /\ Len(db_messages) < MaxAppends
    /\ db_messages' = DbAddMessageAt(db_messages, sid, role, content, now)
    /\ db_recent' = Touch(db_recent, sid)
    /\ last' = [op |-> "add_message", result |-> "ok", emitted |-> <<>>]
    /\ UNCHANGED <<db_sessions, next_session_id, sm_vars, reg_vars, cw_vars, ai_threads,
                   queue, timers, title_threads, gui_pc, budget_vars>>

OrderNext ==
    \E sid \in OrderSessions : \E role \in {"user", "assistant"} :
        \E now \in ClockReadings : AddMessage(sid, role, <<"Hello">>, now)

OrderSpec == OrderInit /\ [][OrderNext]_vars

\* ------------------------------------------------------- provider clients
\* A deterministic stub in place of AsyncOpenAI: the response is the deltas, in
\* order, and the request raises after `raises_after` of them (0: in create();
\* more than there are deltas: never).  A request that is not streamed gets the
\* whole response or the exception.
Deltas == {<<"Hi">>, <<" there">>, <<>>}

Backends ==
    {[deltas |-> deltas, raises_after |-> k] :
        deltas \in UNION {[1..n -> Deltas] : n \in 0..MaxDeltas}, k \in 0..(MaxDeltas + 1)}

Raises(backend) == backend.raises_after <= Len(backend.deltas)

\* DeepSeekClient / OpenRouterClient.chat_completion_stream: the fragments it
\* yields
ChatCompletionStream(backend) ==
    LET received == SubSeq(backend.deltas, 1,
                           IF Raises(backend) THEN backend.raises_after
                           ELSE Len(backend.deltas))
        yielded == SelectSeq(received, LAMBDA delta : delta # <<>>)
    IN  IF Raises(backend) THEN Append(yielded, ErrorFragment) ELSE yielded

\* DeepSeekClient / OpenRouterClient.chat_completion
ChatCompletion(backend, stream) ==
    IF stream
    THEN [content |-> Concat(ChatCompletionStream(backend)), error |-> FALSE]
    ELSE IF Raises(backend) THEN [content |-> <<>>, error |-> TRUE]
    ELSE [content |-> Concat(backend.deltas), error |-> FALSE]

ClientKey == <<"deepseek", <<"deepseek-chat">>>>

ClientInit ==
    /\ db_sessions = [x \in {1} |-> [title |-> WelcomeTitle, ai_model |-> DefaultModel,
                                      system_prompt |-> <<>>]]
    /\ session_cache = db_sessions
    /\ db_messages = <<>>
    /\ db_recent = <<1>>
    /\ next_session_id = 2
    /\ sm_current = 1
    /\ api_keys = [provider \in Providers |-> IF provider = "deepseek" THEN 1 ELSE 0]
    /\ \E backend \in Backends :
          clients = [key \in {ClientKey} |-> [id |-> 1, api_key |-> 1, backend |-> backend]]
    /\ constructed = 1
    /\ cw_current = 1
    /\ is_generating = FALSE
    /\ input_enabled = TRUE
    /\ stop_enabled = FALSE
    /\ streaming_response = <<>>
    /\ current_ai_bubble = None
    /\ ai_threads = <<>>
    /\ queue = <<>>
    /\ timers = <<>>
    /\ title_threads = <<>>
    /\ gui_pc = GuiReturned
    /\ last = [op |-> "init", result |-> "ok", emitted |-> <<>>]
    /\ submits_left = 0
    /\ gestures_left = 0

\* one invocation of the cached client, streamed or not
InvokeClient(stream) ==
    /\ last' = [op |-> "chat_completion",
                result |-> [stream |-> stream,
                            response |-> ChatCompletion(clients[ClientKey].backend, stream)],
                emitted |-> <<>>]
    /\ UNCHANGED <<db_vars, sm_vars, reg_vars, cw_vars, ai_threads, queue, timers,
                   title_threads, gui_pc, budget_vars>>

ClientNext == \E stream \in BOOLEAN : InvokeClient(stream)

ClientSpec == ClientInit /\ [][ClientNext]_vars

Next ==
    \/ \E text \in Inputs : SendMessage(text)
    \/ \E t \in 1..Len(ai_threads) :
          \E chunk \in Range(Script) \cup {ErrorFragment} : WorkerChunk(t, chunk)
    \/ \E t \in 1..Len(ai_threads) : WorkerEnd(t)
    \/ \E t \in 1..Len(ai_threads) : WorkerException(t)
    \/ OnAiResponseChunk
    \/ OnAiResponseFinished
    \/ FinishedStep
    \/ OnAiResponseError
    \/ StopGeneration
    \/ \E sid \in 1..MaxSessions : SelectSession(sid)
    \/ NewSession
    \/ \E sid \in 1..MaxSessions : DeleteSession(sid)
    \/ ClearSession
    \/ \E sid \in 1..MaxSessions : \E text \in RenameInputs : RenameSession(sid, text)
    \/ \E provider \in KeyProviders : \E key \in ApiKeys : ApplySettings(provider, key)
    \/ \E model_key \in MenuModels : OnModelSelected(model_key)
    \/ StartDelayedRenaming
    \/ \E k \in 1..Len(title_threads) : TitleCall(k)
    \/ \E k \in 1..Len(title_threads) : \E response \in TitleResponses : TitleResponse(k, response)
    \/ \E k \in 1..Len(title_threads) : TitleException(k)
    \/ \E k \in 1..Len(title_threads) : TitleCacheWrite(k)
    \/ OnTitleGenerated

Spec == Init /\ [][Next]_vars

\* the program right after the first exchange of session 1, which has the
\* default title: the answer is stored, the handler has returned and the title
\* timer is pending; the user has stayed in the session or gone back to the
\* welcome session
PendingInit ==
    /\ db_sessions = [x \in {1, 2} |->
                         [title |-> IF x = 1 THEN DefaultTitle ELSE WelcomeTitle,
                          ai_model |-> DefaultModel, system_prompt |-> <<>>]]
    /\ session_cache = db_sessions
    /\ db_recent = <<1, 2>>
    /\ db_messages = << [session_id |-> 1, role |-> "user", content |-> <<"Hello">>,
                          timestamp |-> 1],
                        [session_id |-> 1, role |-> "assistant", content |-> <<"Hi", " there">>,
                          timestamp |-> 2] >>
    /\ next_session_id = 3
    /\ api_keys = [provider \in Providers |-> IF provider = "deepseek" THEN 1 ELSE 0]
    /\ clients = [key \in {<<"deepseek", <<"deepseek-chat">>>>} |-> [id |-> 1, api_key |-> 1]]
    /\ constructed = 1
    /\ \E shown \in {1, 2} :
          /\ sm_current = shown
          /\ cw_current = shown
          /\ timers = <<[trigger |-> 1, disturbed |-> shown # 1]>>
    /\ is_generating = FALSE
    /\ input_enabled = TRUE
    /\ stop_enabled = FALSE
    /\ streaming_response = <<"Hi", " there">>
    /\ current_ai_bubble = None
    /\ ai_threads = <<EndedThread("done")>>
    /\ queue = <<>>
    /\ title_threads = <<>>
    /\ gui_pc = GuiReturned
    /\ last = [op |-> "init", result |-> "ok", emitted |-> <<>>]
    /\ submits_left = LiveSubmits
    /\ gestures_left = 0

\* from there the user only submits
PendingNext ==
    \/ \E text \in Inputs : SendMessage(text)
    \/ \E t \in 1..Len(ai_threads) :
          \E chunk \in Range(Script) \cup {ErrorFragment} : WorkerChunk(t, chunk)
    \/ \E t \in 1..Len(ai_threads) : WorkerEnd(t)
    \/ \E t \in 1..Len(ai_threads) : WorkerException(t)
    \/ OnAiResponseChunk
    \/ OnAiResponseFinished
    \/ FinishedStep
    \/ OnAiResponseError
    \/ StartDelayedRenaming
    \/ \E k \in 1..Len(title_threads) : TitleCall(k)
    \/ \E k \in 1..Len(title_threads) : \E response \in TitleResponses : TitleResponse(k, response)
    \/ \E k \in 1..Len(title_threads) : TitleException(k)
    \/ \E k \in 1..Len(title_threads) : TitleCacheWrite(k)
    \/ OnTitleGenerated

\* The worker threads run whenever they can (the stream is finite), and the Qt
\* event loop delivers every queued signal and finishes every handler it entered.
WorkerProgress(t) ==
    /\ t \in 1..Len(ai_threads)
    /\ \/ \E chunk \in Range(Script) \cup {ErrorFragment} : WorkerChunk(t, chunk)
       \/ WorkerEnd(t)
       \/ WorkerException(t)

\* the event loop also fires every timer that is due
EventLoop ==
    \/ OnAiResponseChunk
    \/ OnAiResponseFinished
    \/ FinishedStep
    \/ OnAiResponseError
    \/ OnTitleGenerated
    \/ StartDelayedRenaming

\* a title thread runs until auto_generate_session_title returns (the
\* completion call answers or raises)
TitleProgress(k) ==
    /\ k \in 1..Len(title_threads)
    /\ \/ TitleCall(k)
       \/ \E response \in TitleResponses : TitleResponse(k, response)
       \/ TitleException(k)
       \/ TitleCacheWrite(k)

Fairness ==
    /\ \A t \in 1..(MaxSubmits + LiveSubmits) : WF_vars(WorkerProgress(t))
    /\ \A k \in 1..(MaxSubmits + LiveSubmits) : WF_vars(TitleProgress(k))
    /\ WF_vars(EventLoop)

LiveSpec == LiveInit /\ [][Next]_vars /\ Fairness

PendingSpec == PendingInit /\ [][PendingNext]_vars /\ Fairness

\* The title synthesis from the completion on, for any completion of up to
\* MaxTitleLen tokens.  A completion is made of blanks, the two quoting
\* characters, the two title labels and a word.
TitleTokens == {" ", "\"", "'", "biaoti:", "biaoti-fullwidth-colon", "Greeting"}

\* what chat_completion may return to the title thread: content without an
\* error, or an error with empty content
TitleCompletions ==
    {[error |-> FALSE, content |-> raw] :
        raw \in UNION {[1..n -> TitleTokens] : n \in 0..MaxTitleLen}}
    \cup {[error |-> TRUE, content |-> <<>>]}

\* session 1, shown, holds its first exchange under the default title; its
\* title thread has sent the prompt and awaits the completion its client
\* will return
TitleInit ==
    /\ db_sessions = [x \in {1} |-> [title |-> DefaultTitle, ai_model |-> DefaultModel,
                                      system_prompt |-> <<>>]]
    /\ session_cache = db_sessions
    /\ db_recent = <<1>>
    /\ db_messages = << [session_id |-> 1, role |-> "user", content |-> <<"Hello">>,
                          timestamp |-> 1],
                        [session_id |-> 1, role |-> "assistant", content |-> <<"Hi", " there">>,
                          timestamp |-> 2] >>
    /\ next_session_id = 2
    /\ sm_current = 1
    /\ api_keys = [provider \in Providers |-> IF provider = "deepseek" THEN 1 ELSE 0]
    /\ clients = [key \in {ClientKey} |-> [id |-> 1, api_key |-> 1]]
    /\ constructed = 1
    /\ cw_current = 1
    /\ is_generating = FALSE
    /\ input_enabled = TRUE
    /\ stop_enabled = FALSE
    /\ streaming_response = <<"Hi", " there">>
    /\ current_ai_bubble = None
    /\ ai_threads = <<EndedThread("done")>>
    /\ queue = <<>>
    /\ timers = <<>>
    /\ \E completion \in TitleCompletions :
          title_threads = <<[session_id |-> 1, disturbed |-> FALSE, trigger |-> 1,
                             state |-> "awaiting", user_message |-> <<"Hello">>,
                             returned |-> <<>>,
                             ai_client |-> [id |-> 1, api_key |-> 1,
                                            completion |-> completion]]>>
    /\ gui_pc = GuiReturned
    /\ last = [op |-> "init", result |-> "ok", emitted |-> <<>>]
    /\ submits_left = 0
    /\ gestures_left = 0

\* the completion call of title thread k returns what its client holds
TitleAnswer(k) == TitleResponse(k, title_threads[k].ai_client.completion)

TitleNext ==
    \/ \E k \in 1..Len(title_threads) : TitleAnswer(k)
    \/ \E k \in 1..Len(title_threads) : TitleCacheWrite(k)
    \/ OnTitleGenerated

TitleSpec == TitleInit /\ [][TitleNext]_vars

\* --------------------------------------------------------------- properties
\* the generation tasks of session s that are in flight: threads still reading
\* their stream
ActiveTasks(s) ==
    {t \in 1..Len(ai_threads) : ai_threads[t].state = "running" /\ ai_threads[t].session = s}

\* C1: in every reachable state each session has at most one active generation
\* task, and a submit on a session whose generation is active is rejected
\* (send_message takes one of its early returns, which change nothing).
C1_OneTaskSubmitRejected ==
    \A s \in 1..MaxSessions :
        /\ Cardinality(ActiveTasks(s)) <= 1
        /\ (ActiveTasks(s) # {} /\ cw_current = s)
              => \A text \in Inputs : SubmitOutcome(text) # "accepted"

\* the session is Idle: no generation is in progress and the input is enabled
Idle == ~is_generating /\ input_enabled

\* send_message went past its early returns
SubmitAccepted ==
    last.op = "send_message" /\ last.result \in {"started", "no_client", "no_session"}

\* C2: every accepted submit eventually returns the session to Idle
\* (is_generating false, input enabled), whether the stream ends normally, ends
\* with an error fragment or an exception, no client resolves, or the user stops.
C2_AcceptedSubmitReturnsToIdle == (SubmitAccepted \/ is_generating) ~> Idle

\* a stream that yielded fragments ended normally and the session is Idle again
C2_Witness ==
    /\ last.op = "on_ai_response_finished"
    /\ last.result = "notify"
    /\ Idle
    /\ \E i \in 1..Len(db_messages) :
          db_messages[i].role = "assistant" /\ db_messages[i].content # <<>>

\* the text of the first n fragments the provider client yields
Yielded(n) == Concat(SubSeq(Script, 1, n))

\* every message of session s, in the order the store lists them
SessionMessages(msgs, s) == DbGetMessages(msgs, s, Len(msgs))

\* the GUI thread leaves on_ai_response_finished in this step
FinishedReturns == gui_pc.steps # <<>> /\ gui_pc'.steps = <<>>

\* C3: when a stream ends normally after fragments f1..fn, the handler leaves the
\* session the turn was submitted in with the user message followed by one
\* assistant message whose content is f1 + ... + fn, and the session Idle.
C3_NormalEndPersistsConcatenation ==
    [][FinishedReturns =>
          LET own == SessionMessages(db_messages', gui_pc.session)
          IN  /\ Len(own) >= 2
              /\ own[Len(own)].role = "assistant"
              /\ own[Len(own)].content = Yielded(gui_pc.yielded)
              /\ own[Len(own) - 1].role = "user"
              /\ ~is_generating' /\ input_enabled']_vars

\* the last message the store holds
LastStored == db_messages[Len(db_messages)]

\* the GUI thread is about to emit generation_finished from on_ai_response_finished
NotifiesFinished ==
    /\ gui_pc.steps # <<>>
    /\ Head(gui_pc.steps) = "notify"
    /\ gui_pc'.steps # gui_pc.steps

\* C4: on_ai_response_finished emits generation_finished only when the store
\* already holds the assistant message with the turn's final text.
C4_PersistBeforeNotify ==
    [][NotifiesFinished =>
          /\ db_messages # <<>>
          /\ LastStored.role = "assistant"
          /\ LastStored.content = gui_pc.arg]_vars

C4_Witness ==
    /\ last.op = "on_ai_response_finished"
    /\ "generation_finished" \in Range(last.emitted)
    /\ db_messages # <<>>
    /\ LastStored.role = "assistant"
    /\ LastStored.content = Yielded(Len(Script))

\* the messages of the session the chat widget shows
Shown == SessionMessages(db_messages, cw_current)

\* C5: stop_generation during a generation leaves the concatenation of the
\* fragments received so far stored as the assistant message, and the session Idle.
C5_StopPersistsPartial ==
    (last.op = "stop_generation" /\ last.result = "stopped") =>
        /\ Shown # <<>>
        /\ Shown[Len(Shown)].role = "assistant"
        /\ Shown[Len(Shown)].content = streaming_response
        /\ Idle

\* C6: after on_ai_response_error the last user message of the session is
\* followed by a non-empty assistant message, and the session is Idle.
C6_ErrorFinalizesAssistantMessage ==
    last.op = "on_ai_response_error" =>
        /\ Len(Shown) >= 2
        /\ Shown[Len(Shown)].role = "assistant"
        /\ Shown[Len(Shown)].content # <<>>
        /\ Shown[Len(Shown) - 1].role = "user"
        /\ Idle

\* C7: a submit that resolves no provider client reports an error to the main
\* window, starts no AIResponseThread and leaves the session Idle.
C7_NoClientReportsError ==
    (last.op = "send_message" /\ last.result = "no_client") =>
        /\ \E i \in 1..Len(last.emitted) : last.emitted[i] # "message_sent"
        /\ ActiveTasks(cw_current) = {}
        /\ Idle

\* a 2 s timer for _start_delayed_renaming is scheduled in this step
SchedulesTitle == Len(timers') > Len(timers)

\* C8: a title timer is scheduled only by on_ai_response_finished, after the
\* store write, and only if the shown session then has exactly 2 messages and
\* the default title.
C8_TitleScheduledOnlyOnTrigger ==
    [][SchedulesTitle =>
          /\ NotifiesFinished
          /\ last'.op = "on_ai_response_finished"
          /\ cw_current \in DOMAIN db_sessions
          /\ db_sessions[cw_current].title = DefaultTitle
          /\ Len(Shown) = 2]_vars

\* title thread k stores the title it synthesized, or gives up, in this step
SynthesizerReturns(k) ==
    /\ Len(title_threads') = Len(title_threads)
    /\ title_threads[k].state = "awaiting"
    /\ title_threads'[k].state \in {"updating", "done"}

\* C9: a session whose title is not the default title when the title thread
\* writes keeps its title.
C9_CustomTitleNeverAutoRenamed ==
    [][\A k \in 1..Len(title_threads) :
          SynthesizerReturns(k) =>
              \A s \in DOMAIN db_sessions :
                  db_sessions[s].title # DefaultTitle =>
                      db_sessions'[s].title = db_sessions[s].title]_vars

\* C10: a title task whose timer saw a session switch, or the deletion of its
\* triggering session, before it fired changes no title.
C10_DisturbedTitleTaskNoOps ==
    [][\A k \in 1..Len(title_threads) :
          (SynthesizerReturns(k) /\ title_threads[k].disturbed) =>
              db_sessions' = db_sessions]_vars

\* the rows of a listing without their timestamps
Rows(listing) ==
    [i \in 1..Len(listing) |-> [session_id |-> listing[i].session_id,
                                role |-> listing[i].role,
                                content |-> listing[i].content]]

\* the first exchange of the end-to-end scenario, as the store lists it
FirstExchange(s) ==
    << [session_id |-> s, role |-> "user", content |-> <<"Hello">>],
       [session_id |-> s, role |-> "assistant", content |-> Yielded(Len(Script))] >>

\* the title of session s in the store (<<>> once the row is gone)
TitleOf(s) == IF s \in DOMAIN db_sessions THEN db_sessions[s].title ELSE <<>>

\* session s waits for its title: it is shown, holds the first exchange under
\* the default title, and the 2 s timer or the title thread is pending
AwaitsTitle(s) ==
    /\ s \in DOMAIN db_sessions
    /\ cw_current = s
    /\ TitleOf(s) = DefaultTitle
    /\ Rows(SessionMessages(db_messages, s)) = FirstExchange(s)
    /\ \/ \E i \in 1..Len(timers) : timers[i].trigger = s /\ ~timers[i].disturbed
       \/ \E k \in 1..Len(title_threads) :
             /\ title_threads[k].state # "done"
             /\ title_threads[k].session_id = s
             /\ ~title_threads[k].disturbed

\* the user switched away from s, deleted it or renamed it
Interfered(s) ==
    \/ s \notin DOMAIN db_sessions
    \/ cw_current # s
    \/ TitleOf(s) \in {Strip(text) : text \in RenameInputs}

\* the title client gave no usable answer for s: auto_generate_session_title
\* returned None
NoGreeting(s) ==
    \E k \in 1..Len(title_threads) :
        /\ title_threads[k].state = "done"
        /\ title_threads[k].session_id = s
        /\ title_threads[k].returned = <<>>

\* the full stream of a turn submitted in the shown session, the session's
\* first, under the default title, has been stored and the handler returns
FirstExchangeEnds ==
    /\ FinishedReturns
    /\ gui_pc.session = cw_current
    /\ gui_pc.yielded = Len(Script)
    /\ cw_current \in DOMAIN db_sessions
    /\ TitleOf(cw_current) = DefaultTitle
    /\ Len(Shown) = 2

\* C11: end to end, a session with the default title that gets "Hello" and the
\* stream "Hi", " there" holds the user message and the assistant message
\* "Hi there" and has its title timer scheduled when the handler returns; and
\* unless the user switches, renames or deletes, or the title client returns
\* no usable title, its title eventually is "Greeting".
C11_EndToEndTitle ==
    /\ [][FirstExchangeEnds =>
             /\ Rows(SessionMessages(db_messages', cw_current)) = FirstExchange(cw_current)
             /\ Len(timers') = Len(timers) + 1
             /\ timers'[Len(timers')].trigger = cw_current]_vars
    /\ \A s \in 1..MaxSessions :
          AwaitsTitle(s) ~> (TitleOf(s) = <<"Greeting">> \/ Interfered(s) \/ NoGreeting(s))

C11_Witness ==
    \E s \in DOMAIN db_sessions :
        /\ TitleOf(s) = <<"Greeting">>
        /\ cw_current = s
        /\ Rows(SessionMessages(db_messages, s)) = FirstExchange(s)
        /\ \E k \in 1..Len(title_threads) :
              /\ title_threads[k].state = "done"
              /\ title_threads[k].session_id = s
              /\ title_threads[k].returned = <<"Greeting">>

\* title thread k leaves auto_generate_session_title in this step
TitleReturns(k) ==
    /\ Len(title_threads') = Len(title_threads)
    /\ title_threads[k].state # "done"
    /\ title_threads'[k].state = "done"

\* every cached session stays cached under the same title
CacheTitlesKept ==
    \A s \in DOMAIN session_cache :
        s \in DOMAIN session_cache' /\ session_cache'[s].title = session_cache[s].title

\* the user messages auto_generate_session_title finds for session sid
TitleUserMessages(sid) ==
    SelectSeq(GetSessionMessages(db_messages, sid, sm_current, TitleLimit),
              LAMBDA m : m.role = "user")

\* C12: a title synthesis that fails (no client, no user message, unusable or
\* failing answer, exception, update of a missing row) returns no title, leaves
\* every title in the store and in the session cache as it was, and touches
\* neither is_generating nor the main window: only finished_renaming is queued.
C12_FailedTitleChangesNothing ==
    [][/\ \A k \in 1..Len(title_threads) :
             TitleReturns(k) =>
                /\ (/\ title_threads[k].state # "updating"
                    /\ \/ title_threads[k].session_id \notin DOMAIN db_sessions
                       \/ TitleUserMessages(title_threads[k].session_id) = <<>>)
                      => title_threads'[k].returned = <<>>
                /\ title_threads'[k].returned = <<>> =>
                      /\ db_sessions' = db_sessions
                      /\ session_cache' = session_cache
                      /\ is_generating' = is_generating
                      /\ last' = last
                      /\ queue' = Append(queue, TitleSignal)
       /\ (last'.op = "_start_delayed_renaming" /\ Len(timers') < Len(timers)
              /\ last'.result # "started") =>
             /\ db_sessions' = db_sessions
             /\ CacheTitlesKept
             /\ title_threads' = title_threads
             /\ is_generating' = is_generating
             /\ last'.emitted = <<>>]_vars

C12_Witness ==
    \E k \in 1..Len(title_threads) :
        /\ title_threads[k].state = "done"
        /\ title_threads[k].returned = <<>>
        /\ TitleOf(title_threads[k].session_id) = DefaultTitle
        /\ TitleUserMessages(title_threads[k].session_id) # <<>>

\* the parsing rule in words: fewer than 2 segments give the default pair;
\* otherwise the provider is the first segment and the model id is every
\* segment after the first when the provider is openrouter (in any case) and
\* there are more than 2 segments, else the second segment
RuleParse(model_string) ==
    IF Len(model_string) < 2
    THEN [provider |-> "deepseek", model |-> <<"deepseek-chat">>]
    ELSE [provider |-> Head(model_string),
          model |-> IF Lower(Head(model_string)) = "openrouter" /\ Len(model_string) > 2
                    THEN Tail(model_string)
                    ELSE <<model_string[2]>>]

\* C13: both parsers follow the rule on every stored model string, agree with
\* each other, and the registry is asked for exactly the parsed pair;
\* "deepseek/deepseek-chat", "openrouter/anthropic/claude-3.5-sonnet" and
\* "bogus" parse as stated.
C13_ModelStringParsing ==
    /\ \A s \in DOMAIN db_sessions :
          /\ ParseModel(db_sessions[s].ai_model) = RuleParse(db_sessions[s].ai_model)
          /\ ParseTitleModel(db_sessions[s].ai_model) = ParseModel(db_sessions[s].ai_model)
    /\ \A key \in DOMAIN clients :
          \E s \in DOMAIN db_sessions :
              key = <<RuleParse(db_sessions[s].ai_model).provider,
                      RuleParse(db_sessions[s].ai_model).model>>
    /\ ParseModel(<<"deepseek", "deepseek-chat">>)
          = [provider |-> "deepseek", model |-> <<"deepseek-chat">>]
    /\ ParseModel(<<"openrouter", "anthropic", "claude-3.5-sonnet">>)
          = [provider |-> "openrouter", model |-> <<"anthropic", "claude-3.5-sonnet">>]
    /\ ParseModel(<<"bogus">>) = [provider |-> "deepseek", model |-> <<"deepseek-chat">>]

C13_Witness ==
    /\ \E key \in DOMAIN clients : Len(key[2]) > 1 /\ key[1] = "OpenRouter"
    /\ title_threads # <<>>
    /\ ai_threads # <<>>

\* the last n elements of a sequence
MostRecent(seq, n) == IF Len(seq) <= n THEN seq ELSE SubSeq(seq, Len(seq) - n + 1, Len(seq))

\* the context in words: the system prompt if there is one, then the most
\* recent ContextLimit user/assistant messages of session s, oldest first
RuleContext(s) ==
    LET session == db_sessions[s]
        head == IF session.system_prompt # <<>>
                THEN <<[role |-> "system", content |-> session.system_prompt]>>
                ELSE <<>>
        own == MostRecent(SelectSeq(SessionMessages(db_messages, s),
                                    LAMBDA m : m.role \in {"user", "assistant"}),
                          ContextLimit)
    IN  head \o [i \in 1..Len(own) |-> [role |-> own[i].role, content |-> own[i].content]]

\* C14: the context a started AIResponseThread was given is the system prompt
\* (if non-empty) followed by the most recent 20 user/assistant messages of
\* its session, oldest first.
C14_ContextIsMostRecent ==
    \A t \in 1..Len(ai_threads) :
        (ai_threads[t].state = "running" /\ last.op = "send_message" /\ last.result = "started")
            => ai_threads[t].messages = RuleContext(ai_threads[t].session)

\* a handler calls get_client in this step: start_ai_response or
\* _start_delayed_renaming, past their session check
GetStep ==
    \/ /\ last'.op = "send_message"
       /\ last'.result \in {"started", "no_client"}
       /\ submits_left' < submits_left
    \/ /\ last'.op = "_start_delayed_renaming"
       /\ last'.result \in {"started", "no_client"}
       /\ Len(timers') < Len(timers)

\* the registry key of that call
RequestedKey ==
    LET parsed == ParseModel(GetSession(session_cache, db_sessions, cw_current).ai_model)
    IN  <<parsed.provider, parsed.model>>

\* the client that call returned, as the thread it started holds it
ReturnedClient ==
    IF last'.op = "send_message" THEN ai_threads'[Len(ai_threads')].client
    ELSE title_threads'[Len(title_threads')].ai_client

C16_NoClientWithSupersededKey ==
    [][(GetStep /\ last'.result = "started") =>
          ReturnedClient.api_key = GetApiKey(api_keys', Lower(RequestedKey[1]))]_vars

\* the clients held by requests in flight
HeldClients ==
    {ai_threads[t].client : t \in {u \in 1..Len(ai_threads) : ai_threads[u].state = "running"}}
        \cup {title_threads[k].ai_client :
                 k \in {j \in 1..Len(title_threads) : title_threads[j].state # "done"}}

\* the cache is consistent: every cached client was constructed once, with an
\* api key, under one key, and a request holding a cached client holds it as
\* the cache does
CacheConsistent ==
    /\ \A key \in DOMAIN clients :
           clients[key].id \in 1..constructed /\ clients[key].api_key # 0
    /\ \A k1, k2 \in DOMAIN clients : clients[k1].id = clients[k2].id => k1 = k2
    /\ \A held \in HeldClients :
           /\ held.id \in 1..constructed
           /\ \A key \in DOMAIN clients : clients[key].id = held.id => clients[key] = held
    /\ \A h1, h2 \in HeldClients : h1.id = h2.id => h1 = h2

C18_OtherSessionSubmitAccepted ==
    (/\ cw_current # NoId
     /\ ActiveTasks(cw_current) = {}
     /\ \E other \in 1..MaxSessions : other # cw_current /\ ActiveTasks(other) # {})
        => \A text \in Inputs : Strip(text) # <<>> => SubmitOutcome(text) = "accepted"

\* the messages of session s in the order they were appended
AppendOrder(msgs, s) == SelectSeq(msgs, LAMBDA m : m.session_id = s)

\* C19: whatever the timestamps of the appends, equal ones included, listing
\* a session's messages returns them in the order they were appended.
C19_ListingIsAppendOrder ==
    \A s \in OrderSessions :
        DbGetMessages(db_messages, s, MessagesLimit) = AppendOrder(db_messages, s)

\* C20: every stored message belongs to a session the store holds: after
\* delete_session(id) no message with session id `id` is left.
C20_DeleteCascades ==
    \A i \in 1..Len(db_messages) : db_messages[i].session_id \in DOMAIN db_sessions

\* the stored assistant messages
AssistantRows(msgs) == {msgs[i] : i \in {j \in 1..Len(msgs) : msgs[j].role = "assistant"}}

\* clear_session has just removed the messages of the session shown
Cleared == last'.op = "clear_session" /\ last'.result = "cleared" /\ db_messages' # db_messages

\* C21: a stored assistant message keeps its content under every later
\* operation; it leaves the store only when clear_session removes the messages
\* of its session.
C21_AssistantContentImmutable ==
    [][/\ \A row \in AssistantRows(db_messages) :
              row \in AssistantRows(db_messages') \/ (Cleared /\ row.session_id = cw_current)
       /\ ~Cleared => SubSeq(db_messages', 1, Len(db_messages)) = db_messages]_vars

C21_Witness ==
    /\ Cardinality(AssistantRows(db_messages)) = 2
    /\ \E row \in AssistantRows(db_messages) :
          row.content = Yielded(Len(Script)) /\ row.timestamp < LastStored.timestamp
    /\ last.op = "on_ai_response_finished"
    /\ last.result = "notify"

\* C22: for one client and one deterministic backend, the text of the streamed
\* invocation equals the content of the invocation that is not streamed,
\* also when the backend fails.
C22_StreamedEqualsDirect ==
    last.op = "chat_completion" =>
        last.result.response.content =
            ChatCompletion(clients[ClientKey].backend, ~last.result.stream).content

\* on_ai_response_finished, its last content notification: the text it passes
\* to the streaming bubble's update_content, when there is a streaming bubble
FinalNotification ==
    IF current_ai_bubble.exists THEN [sent |-> TRUE, content |-> gui_pc.arg]
    ELSE [sent |-> FALSE, content |-> <<>>]

\* C23: whichever fragments the throttle let through to the bubble, the
\* handler of a completed generation notifies the sink one last time, with the
\* concatenation of all the fragments.
C23_FinalNotificationCarriesFullText ==
    [][NotifiesFinished =>
          /\ FinalNotification.sent
          /\ FinalNotification.content = Yielded(gui_pc.yielded)]_vars

\* a title synthesis is pending: its timer has not fired, or its thread runs
TitlePending ==
    \/ timers # <<>>
    \/ \E k \in 1..Len(title_threads) : title_threads[k].state # "done"

\* a generation is in flight
Generating == \E t \in 1..Len(ai_threads) : ai_threads[t].state = "running"

\* C24: title synthesis and generation do not block each other: while a title
\* synthesis is pending a submit is refused only because a generation is
\* active or the text is empty, and otherwise goes on to resolve the client;
\* a generation started meanwhile comes to its end; and a title synthesis
\* pending during a generation comes to its end.
C24_TitleAndGenerationIndependent ==
    /\ [][(TitlePending /\ last'.op = "send_message" /\ last' # last) =>
             /\ last'.result = "rejected_generating" => is_generating
             /\ last'.result = "rejected_empty" => ~is_generating
             /\ last'.result = "rejected_no_session" => cw_current = NoId
             /\ last'.result \in {"started", "no_client", "no_session"} =>
                    submits_left' < submits_left /\ Len(db_messages') = Len(db_messages) + 1
             /\ last'.result = "started" => Generating']_vars
    /\ (TitlePending /\ Generating) ~> ~Generating
    /\ (TitlePending /\ Generating) ~> ~TitlePending

C24_Witness ==
    /\ is_generating
    /\ \E t \in 1..Len(ai_threads) : ai_threads[t].state = "running" /\ ai_threads[t].pos > 0
    /\ \E k \in 1..Len(title_threads) :
          title_threads[k].state = "done" /\ title_threads[k].returned # <<>>
    /\ submits_left = 0

\* title thread k is inside update_session_title: the store holds its title,
\* its write to the session cache is still to come
InUpdateSessionTitle(k) ==
    k \in 1..Len(title_threads) /\ title_threads[k].state = "updating"

\* C25: the session cache has one writer at a time: while a title thread is
\* inside update_session_title, no step of the interface thread or of another
\* title thread reads into or writes the cache.
C25_CacheAccessExclusive ==
    [][\A k \in 1..Len(title_threads) :
          (InUpdateSessionTitle(k) /\ title_threads'[k] = title_threads[k]) =>
              session_cache' = session_cache]_vars

\* this step is a send_message that appends the user message: it went past
\* the three early returns
AcceptStep ==
    /\ submits_left' = submits_left - 1
    /\ last'.op = "send_message"
    /\ last'.result \in {"started", "no_client", "no_session"}

\* C26: an accepted submit appends to the store the user message and then an
\* empty placeholder assistant message, so the store grows by exactly two
\* messages in the step that accepts, whatever the model string parses to.
C26_AcceptAppendsUserAndPlaceholder ==
    [][AcceptStep =>
          /\ Len(db_messages') = Len(db_messages) + 2
          /\ db_messages'[Len(db_messages) + 1].role = "user"
          /\ db_messages'[Len(db_messages) + 1].session_id = cw_current
          /\ db_messages'[Len(db_messages')].role = "assistant"
          /\ db_messages'[Len(db_messages')].session_id = cw_current
          /\ db_messages'[Len(db_messages')].content = <<>>]_vars


\* C27: no retry above the provider client: a response thread, and with it a
\* provider stream, is started only by the step that accepts a submit, one per
\* accepted submit; a thread that has ended, with an error or otherwise, never
\* runs again, and a running one never goes back in its stream.
C27_NoRetryAboveClient ==
    [][/\ Len(ai_threads') >= Len(ai_threads)
       /\ Len(ai_threads') > Len(ai_threads) =>
             /\ AcceptStep
             /\ last'.result = "started"
             /\ Len(ai_threads') = Len(ai_threads) + 1
       /\ \A t \in 1..Len(ai_threads) :
             ai_threads'[t].state = "running" =>
                /\ ai_threads[t].state = "running"
                /\ ai_threads'[t].pos >= ai_threads[t].pos
                /\ ai_threads'[t].client = ai_threads[t].client]_vars

\* an error outcome has been handled and the session is Idle with no thread
\* running: the turn was not tried again
C27_Witness ==
    /\ last.op = "on_ai_response_error"
    /\ ai_threads # <<>>
    /\ \A t \in 1..Len(ai_threads) : ai_threads[t].state # "running"
    /\ Len(ai_threads) = MaxSubmits - submits_left
    /\ Idle

\* response thread t is a cancelled task: stop_generation terminated it, or
\* stop_generation has just returned and t was the task it stopped
CancelledTask(t) ==
    /\ t \in 1..Len(ai_threads)
    /\ \/ ai_threads[t].state = "terminated"
       \/ /\ last.op = "stop_generation"
          /\ last.result = "stopped"
          /\ t = Len(ai_threads)

\* the interface thread handles, in this step, an event of a cancelled task:
\* it takes the event off the queue, or goes on in on_ai_response_finished
HandlesCancelledEvent ==
    \/ /\ GuiIdle
       /\ queue # <<>>
       /\ queue' = Tail(queue)
       /\ CancelledTask(Head(queue).thread)
    \/ /\ ~GuiIdle
       /\ gui_pc' # gui_pc
       /\ CancelledTask(gui_pc.thread)

\* C28: once stop_generation has returned, an event of the cancelled task has
\* no effect: it appends nothing to streaming_response, shows nothing in the
\* bubble, stores no message, leaves is_generating as it is and emits no
\* generation_finished, a new generation having started or not.
C28_CancelledEventsHaveNoEffect ==
    [][HandlesCancelledEvent =>
          /\ streaming_response' = streaming_response
          /\ current_ai_bubble' = current_ai_bubble
          /\ db_messages' = db_messages
          /\ is_generating' = is_generating
          /\ last'.emitted = <<>>]_vars


\* the cleaning rule in words: the quoting characters are removed, then every
\* title label the text begins with, and the blanks around what is left; all
\* other text stays as it is
TitleQuotes == {"\"", "'"}

TitleLabels == {"biaoti:", "biaoti-fullwidth-colon"}

RECURSIVE DropLeadingLabels(_)
DropLeadingLabels(s) ==
    LET t == LStrip(s)
    IN  IF t # <<>> /\ Head(t) \in TitleLabels THEN DropLeadingLabels(Tail(t)) ELSE t

RuleTitle(raw) == Strip(DropLeadingLabels(SelectSeq(raw, LAMBDA tok : tok \notin TitleQuotes)))

\* title thread k gets its completion in this step
CompletionReturns(k) ==
    /\ Len(title_threads') = Len(title_threads)
    /\ title_threads[k].state = "awaiting"
    /\ title_threads'[k].state # "awaiting"

\* C29: the title the synthesizer writes is the completion without its
\* quoting characters and without a leading title label, trimmed, the rest of
\* the text unchanged; update_session_title is called exactly when that
\* cleaned text is not empty.
C29_TitleIsCleanedCompletion ==
    [][\A k \in 1..Len(title_threads) :
          CompletionReturns(k) =>
              LET sid == title_threads[k].session_id
                  cleaned == RuleTitle(title_threads[k].ai_client.completion.content)
              IN  /\ title_threads'[k].state = "updating" <=> cleaned # <<>>
                  /\ cleaned # <<>> => db_sessions'[sid].title = cleaned
                  /\ cleaned = <<>> => db_sessions' = db_sessions]_vars

\* the title syntheses pending for session s: the 2 s timers its exchanges
\* scheduled that have not fired, and the title threads working on it
PendingTimers(s) == {i \in 1..Len(timers) : timers[i].trigger = s}

PendingTitleThreads(s) ==
    {k \in 1..Len(title_threads) :
        title_threads[k].session_id = s /\ title_threads[k].state # "done"}

\* C30: title triggers for one session are coalesced: at most one title
\* synthesis, timer or thread, is pending for a session at any time, also when
\* the session is cleared and has a second first exchange.
C30_OnePendingTitlePerSession ==
    \A s \in 1..(MaxSessions + MaxGestures) :
        Cardinality(PendingTimers(s)) + Cardinality(PendingTitleThreads(s)) <= 1

\* C31: the assistant message a generation produces is appended to the session
\* its user message was submitted in, whatever session the user has selected
\* or deleted meanwhile; no other session receives it.
C31_AnswerFiledInSubmittingSession ==
    [][(/\ gui_pc.steps # <<>>
        /\ Head(gui_pc.steps) = "persist"
        /\ gui_pc' # gui_pc) =>
          /\ Len(db_messages') = Len(db_messages) + 1
          /\ db_messages'[Len(db_messages')].role = "assistant"
          /\ db_messages'[Len(db_messages')].session_id = gui_pc.session]_vars

\* C32: whatever the number of messages the session already holds, the context
\* handed to the response thread of an accepted submit ends with the user
\* message that submit has just stored.
C32_ContextEndsWithSubmittedMessage ==
    [][(AcceptStep /\ last'.result = "started") =>
          LET context == ai_threads'[Len(ai_threads')].messages
              submitted == db_messages'[Len(db_messages')]
          IN  /\ submitted.role = "user"
              /\ context # <<>>
              /\ context[Len(context)] = [role |-> "user", content |-> submitted.content]]_vars


\* response thread t emits a signal in this step: Qt queues it behind the
\* others
Emits(t) == Len(queue') = Len(queue) + 1 /\ queue'[Len(queue')].thread = t

TerminalSignals == {"response_finished", "response_error"}

\* C33: a run of the response thread that is not terminated emits exactly one
\* terminal signal, response_finished or response_error, as it ends, and no
\* signal after it; response_finished carries the accumulated response; a
\* fragment that begins with the error marker is never emitted as a chunk nor
\* accumulated: what is accumulated is what was emitted as chunks.
C33_OneTerminalSignal ==
    [][\A t \in 1..Len(ai_threads) :
          LET signal == queue'[Len(queue')]
          IN  /\ Emits(t) => ai_threads[t].state = "running"
              /\ (Emits(t) /\ signal.sig \in TerminalSignals) => ai_threads'[t].state = "done"
              /\ (Emits(t) /\ signal.sig = "response_finished") =>
                     signal.arg = ai_threads[t].full_response
              /\ (Emits(t) /\ signal.sig = "response_chunk") =>
                     /\ ai_threads'[t].state = "running"
                     /\ signal.arg # <<>>
                     /\ Head(signal.arg) # ErrorPrefix
                     /\ ai_threads'[t].full_response = ai_threads[t].full_response \o signal.arg
              /\ (ai_threads[t].state = "running" /\ ai_threads'[t].state = "done") =>
                     Emits(t) /\ signal.sig \in TerminalSignals
              /\ (ai_threads'[t].state = "running" /\ ~Emits(t)) =>
                     ai_threads'[t].full_response = ai_threads[t].full_response]_vars

\* a run emitted a chunk and then met a fragment with the error marker: its
\* response_error is queued behind the chunk and the run is over
C33_Witness ==
    \E i \in 1..Len(queue) :
        /\ queue[i].sig = "response_error"
        /\ queue[i].arg # <<>>
        /\ Head(queue[i].arg) = ErrorPrefix
        /\ ai_threads[queue[i].thread].state = "done"
        /\ \E j \in 1..(i - 1) :
              queue[j].sig = "response_chunk" /\ queue[j].thread = queue[i].thread
        /\ \A j \in (i + 1)..Len(queue) : queue[j].thread # queue[i].thread

\* C34: generation_started and generation_finished alternate: is_generating is
\* true exactly from a generation_started to the next generation_finished, so
\* generation_started is emitted only while it is false and generation_finished
\* only while it is true, on a finish, an error, a stop, the window closing or
\* a late worker event.
C34_StartedFinishedAlternate ==
    [][/\ (AcceptStep /\ last'.result = "started") => ~is_generating
       /\ (/\ \E i \in 1..Len(last'.emitted) : last'.emitted[i] = "generation_finished"
           /\ \/ gestures_left' < gestures_left
              \/ queue # <<>> /\ queue' = Tail(queue)
              \/ gui_pc' # gui_pc) => is_generating]_vars


\* C35: the controls mirror the generation flag in every state: the send
\* button, the text input and the clear button, which every handler sets
\* together, are enabled exactly when is_generating is false, and the stop
\* button exactly when it is true.
C35_ControlsMirrorFlag ==
    /\ input_enabled = ~is_generating
    /\ stop_enabled = is_generating

\* a second generation runs: the controls were re-enabled when the first
\* ended and are disabled again
C35_Witness ==
    /\ Len(ai_threads) >= 2
    /\ ai_threads[Len(ai_threads)].state = "running"
    /\ is_generating
    /\ stop_enabled
    /\ ~input_enabled

\* the messages the store holds for session s, in rowid order
StoredFor(msgs, s) == SelectSeq(msgs, LAMBDA m : m.session_id = s)

\* C36: while a generation is in flight, from its start to its terminal event,
\* clear_session is rejected and no message of the shown session leaves the
\* store.
C36_NoClearDuringGeneration ==
    [][Generating =>
          /\ Len(StoredFor(db_messages', cw_current)) >= Len(StoredFor(db_messages, cw_current))
          /\ (last'.op = "clear_session" /\ gestures_left' < gestures_left) =>
                last'.result \in {"rejected_generating", "no_session"}]_vars

\* ------------------------------------------------- the session manager alone
\* CacheAfterDelete leaving the cached session in place
CacheAfterDelete_Keeps(cache, sessions, sid) == cache

\* SessionManager.delete_session: the cache it leaves
CacheAfterDelete(cache, sessions, sid) ==
    IF sid \in DOMAIN sessions THEN [x \in DOMAIN cache \ {sid} |-> cache[x]] ELSE cache

\* CurrentAfterSwitch selecting the id whether or not a session was found
CurrentAfterSwitch_Always(cache, sessions, cur, sid) == sid

\* SessionManager.switch_to_session: the current session id it leaves
CurrentAfterSwitch(cache, sessions, cur, sid) ==
    IF HasSession(cache, sessions, sid) THEN sid ELSE cur

\* SessionManager.__init__ over a database that holds one session of an
\* earlier run; nothing else of the program is running
ManagerInit ==
    /\ db_sessions = [x \in {1} |-> [title |-> WelcomeTitle, ai_model |-> DefaultModel,
                                      system_prompt |-> <<>>]]
    /\ db_recent = <<1>>
    /\ db_messages = <<>>
    /\ next_session_id = 2
    /\ session_cache = [x \in {} |-> None]
    /\ sm_current = NoId
    /\ api_keys = [provider \in Providers |-> 0]
    /\ clients = ClearCache
    /\ constructed = 0
    /\ cw_current = NoId
    /\ is_generating = FALSE
    /\ input_enabled = TRUE
    /\ stop_enabled = FALSE
    /\ streaming_response = <<>>
    /\ current_ai_bubble = None
    /\ ai_threads = <<>>
    /\ queue = <<>>
    /\ timers = <<>>
    /\ title_threads = <<>>
    /\ gui_pc = GuiReturned
    /\ last = [op |-> "init", result |-> [session_id |-> NoId, returned |-> TRUE],
               emitted |-> <<>>]
    /\ submits_left = 0
    /\ gestures_left = 0

\* SessionManager.create_new_session with its default arguments
SmCreateNewSession ==
    /\ next_session_id <= MaxSessions
    /\ db_sessions' = DbCreateSession(next_session_id, DefaultTitle)
    /\ db_recent' = <<next_session_id>> \o db_recent
    /\ next_session_id' = next_session_id + 1
    /\ session_cache' = [x \in DOMAIN session_cache \cup {next_session_id} |->
                            IF x = next_session_id THEN db_sessions'[x] ELSE session_cache[x]]
    /\ sm_current' = next_session_id
    /\ last' = [op |-> "create_new_session",
                result |-> [session_id |-> next_session_id, returned |-> TRUE],
                emitted |-> <<>>]
    /\ UNCHANGED <<db_messages, reg_vars, cw_vars, ai_threads, queue, timers,
                   title_threads, gui_pc, budget_vars>>

\* SessionManager.get_session
SmGetSession(sid) ==
    /\ session_cache' = CacheAfterGet(session_cache, db_sessions, sid)
    /\ last' = [op |-> "get_session",
                result |-> [session_id |-> sid,
                            returned |-> HasSession(session_cache, db_sessions, sid)],
                emitted |-> <<>>]
    /\ UNCHANGED <<db_vars, sm_current, reg_vars, cw_vars, ai_threads, queue, timers,
                   title_threads, gui_pc, budget_vars>>

\* SessionManager.switch_to_session
SmSwitchToSession(sid) ==
    /\ session_cache' = CacheAfterGet(session_cache, db_sessions, sid)
    /\ sm_current' = CurrentAfterSwitch(session_cache, db_sessions, sm_current, sid)
    /\ last' = [op |-> "switch_to_session",
                result |-> [session_id |-> sid,
                            returned |-> HasSession(session_cache, db_sessions, sid)],
                emitted |-> <<>>]
    /\ UNCHANGED <<db_vars, reg_vars, cw_vars, ai_threads, queue, timers,
                   title_threads, gui_pc, budget_vars>>

\* SessionManager.update_session_title
SmUpdateSessionTitle(sid, new_title) ==
    /\ db_sessions' = DbUpdateTitle(db_sessions, sid, new_title)
    /\ db_recent' = Touch(db_recent, sid)
    /\ session_cache' = CacheAfterTitle(session_cache, db_sessions, sid, new_title)
    /\ last' = [op |-> "update_session_title",
                result |-> [session_id |-> sid, returned |-> sid \in DOMAIN db_sessions],
                emitted |-> <<>>]
    /\ UNCHANGED <<db_messages, next_session_id, sm_current, reg_vars, cw_vars,
                   ai_threads, queue, timers, title_threads, gui_pc, budget_vars>>

\* SessionManager.delete_session
SmDeleteSession(sid) ==
    /\ db_sessions' = [x \in DOMAIN db_sessions \ {sid} |-> db_sessions[x]]
    /\ db_recent' = Remove(db_recent, sid)
    /\ session_cache' = CacheAfterDelete(session_cache, db_sessions, sid)
    /\ sm_current' = IF sid \in DOMAIN db_sessions /\ sm_current = sid THEN NoId
                     ELSE sm_current
    /\ last' = [op |-> "delete_session",
                result |-> [session_id |-> sid, returned |-> sid \in DOMAIN db_sessions],
                emitted |-> <<>>]
    /\ UNCHANGED <<db_messages, next_session_id, reg_vars, cw_vars, ai_threads, queue,
                   timers, title_threads, gui_pc, budget_vars>>

\* the methods in any order; a caller may pass every id the store can hand
\* out and one that it never does
ManagerNext ==
    \/ SmCreateNewSession
    \/ \E sid \in 1..(MaxSessions + 1) : SmGetSession(sid)
    \/ \E sid \in 1..(MaxSessions + 1) : SmSwitchToSession(sid)
    \/ \E sid \in 1..(MaxSessions + 1), new_title \in RenameInputs :
          SmUpdateSessionTitle(sid, new_title)
    \/ \E sid \in 1..(MaxSessions + 1) : SmDeleteSession(sid)

ManagerSpec == ManagerInit /\ [][ManagerNext]_vars

\* C37: delete_session(id) reports success exactly for a stored session; on
\* success the session is gone from the store and from the cache, so that a
\* later get_session(id) finds nothing, the current session id becomes None
\* if it was id and is otherwise unchanged, and no other session is touched;
\* on failure the store, the cache and the current session id are unchanged
C37_DeleteSessionEffect ==
    [][last'.op = "delete_session" =>
        LET sid == last'.result.session_id
            success == last'.result.returned
        IN  /\ success = (sid \in DOMAIN db_sessions)
            /\ success =>
                  /\ sid \notin DOMAIN db_sessions'
                  /\ sid \notin DOMAIN session_cache'
                  /\ ~HasSession(session_cache', db_sessions', sid)
                  /\ sm_current' = IF sm_current = sid THEN NoId ELSE sm_current
                  /\ \A x \in DOMAIN db_sessions \ {sid} :
                        x \in DOMAIN db_sessions' /\ db_sessions'[x] = db_sessions[x]
                  /\ \A x \in DOMAIN session_cache \ {sid} :
                        x \in DOMAIN session_cache' /\ session_cache'[x] = session_cache[x]
            /\ ~success =>
                  /\ db_sessions' = db_sessions
                  /\ session_cache' = session_cache
                  /\ sm_current' = sm_current]_vars

\* a cached current session has been deleted, and a later delete of the same
\* id has failed
C37_Witness ==
    /\ last.op = "delete_session"
    /\ ~last.result.returned
    /\ last.result.session_id < next_session_id
    /\ sm_current = NoId
    /\ DOMAIN session_cache # {}

\* C38: switch_to_session(id) returns true and makes id the current session
\* exactly when the session exists; for an id without a session it returns
\* false and leaves the current session id and the cache as they were; the
\* current session id only ever changes to None or to a session that exists
C38_SwitchOnlyToExisting ==
    [][/\ last'.op = "switch_to_session" =>
            LET sid == last'.result.session_id
                found == last'.result.returned
            IN  /\ found = (sid \in DOMAIN db_sessions)
                /\ found => sm_current' = sid
                /\ ~found => sm_current' = sm_current /\ session_cache' = session_cache
       /\ sm_current' # sm_current =>
            sm_current' = NoId \/ sm_current' \in DOMAIN db_sessions'
      ]_vars

\* a switch to an id without a session has been refused while another
\* session was current
C38_Witness ==
    /\ last.op = "switch_to_session"
    /\ ~last.result.returned
    /\ sm_current # NoId
    /\ sm_current # last.result.session_id

\* C39: whenever no session manager operation is in the middle of its
\* writes, every cached session is a stored session and its cached title,
\* model and system prompt equal the stored ones
C39_CacheCoherent ==
    (\A k \in 1..Len(title_threads) : title_threads[k].state # "updating") =>
        \A sid \in DOMAIN session_cache :
            /\ sid \in DOMAIN db_sessions
            /\ session_cache[sid].title = db_sessions[sid].title
            /\ session_cache[sid].ai_model = db_sessions[sid].ai_model
            /\ session_cache[sid].system_prompt = db_sessions[sid].system_prompt

====
